---- MODULE Spec2Model ----
(***************************************************************************)
(* Basis translation of a circuit DAG over an equivalence library:         *)
(* BasisTranslator.run, _basis_search (A* over sets of gate names),        *)
(* _compose_transforms and the per-node applier loop of run.               *)
(*                                                                         *)
(* Angles are integers (an arbitrary unit).  A parameter of an instruction *)
(* is the linear form c * vec[i] + n; c = 0 is the plain number n.         *)
(* Costs are counted in units of the edge cost 1e-3, so an estimated total *)
(* cost depth * 1e-3 + h is depth + CostUnitsPerOne * h.                   *)
(***************************************************************************)
EXTENDS Integers, Sequences, FiniteSets, TLC

\* ------------------------------------------------------------------ bounds
\* Longest input DAG (number of op nodes) handed to run.
MaxNodes == 3
\* How many times _basis_search is executed on the same inputs.
MaxRuns == 2
\* Most names in a source basis handed to the planner alone.
MaxBasis == 2
\* Most add_equivalence calls behind a library handed to the planner alone.
MaxRules == 2
\* Cap on the insertion counter of the heap (never reached by the search).
MaxCount == 64
MaxCalls == 3
MaxTrials == 2

\* ------------------------------------------------------- program constants
\* range(20): the arities 0..19 the planner looks up for a gate name.
ArityRange == 20
\* tentative_cost_from_source = cost_from_source[current_basis] + 1e-3
EdgeCost == 1
\* 1 = 1000 * 1e-3: the heuristic counts names, the cost counts 1e-3 steps.
CostUnitsPerOne == 1000
\* from math import pi (in the angle unit of the model).
Pi == 4
Infinity == 1000

basic_instrs == {"measure", "reset", "barrier", "snapshot"}

\* ---------------------------------------------------- parameter expressions
Num(n) == [vec |-> "", i |-> 0, c |-> 0, n |-> n]
Par(v, k) == [vec |-> v, i |-> k, c |-> 1, n |-> 0]
\* c * p + n for a parameter p
Lin(c, p, n) == [vec |-> p.vec, i |-> p.i, c |-> c, n |-> n]

\* isinstance(x, ParameterExpression)
IsParameterExpression(e) == e.c # 0

Mentions(e, p) == e.c # 0 /\ e.vec = p.vec /\ e.i = p.i

\* ParameterExpression.bind({p: value}) on one instruction parameter
BindExpr(e, p, value) ==
    IF Mentions(e, p) THEN Num(e.c * value.n + e.n) ELSE e

\* ParameterExpression.subs({p: x}) on one instruction parameter
SubstExpr(e, p, x) ==
    IF Mentions(e, p)
    THEN [vec |-> x.vec, i |-> x.i, c |-> e.c * x.c, n |-> e.c * x.n + e.n]
    ELSE e

\* ------------------------------------------------------------- circuits
Instr(name, params, qargs, cargs) ==
    [name |-> name, params |-> params, qargs |-> qargs, cargs |-> cargs]

Circuit(num_qubits, data) == [num_qubits |-> num_qubits, data |-> data]

\* QuantumCircuit.count_ops(): the names of the instructions of a circuit
CountOps(circ) == {circ.data[k].name : k \in 1..Len(circ.data)}

\* QuantumCircuit._bind_parameter(param, value)
BindParameter(circ, p, value) ==
    [circ EXCEPT !.data = [k \in 1..Len(circ.data) |->
        [circ.data[k] EXCEPT !.params =
            [j \in 1..Len(circ.data[k].params) |->
                BindExpr(circ.data[k].params[j], p, value)]]]]

\* QuantumCircuit._substitute_parameters({param: x})
SubstituteParameters(circ, p, x) ==
    [circ EXCEPT !.data = [k \in 1..Len(circ.data) |->
        [circ.data[k] EXCEPT !.params =
            [j \in 1..Len(circ.data[k].params) |->
                SubstExpr(circ.data[k].params[j], p, x)]]]]

Min(a, b) == IF a < b THEN a ELSE b

\* for formal, actual in zip(formals, actuals): substitute or bind, in order
RECURSIVE BindZip(_, _, _, _)
BindZip(circ, formals, actuals, k) ==
    IF k > Min(Len(formals), Len(actuals)) THEN circ
    ELSE BindZip(
            IF IsParameterExpression(actuals[k])
            THEN SubstituteParameters(circ, formals[k], actuals[k])
            ELSE BindParameter(circ, formals[k], actuals[k]),
            formals, actuals, k + 1)

\* ------------------------------------------------------ equivalence library
EmptyLibrary == [key \in {} |-> key]

Key(name, num_qubits) == <<name, num_qubits>>

\* The equivalence takes the place of those stored under the key.
AddEquivalenceReplacing(lib, gate, circ) ==
    [key \in DOMAIN lib \cup {Key(gate.name, gate.num_qubits)} |->
        IF key = Key(gate.name, gate.num_qubits)
        THEN [search_base |-> TRUE,
              equivalences |-> <<[params |-> gate.params, circuit |-> circ]>>]
        ELSE lib[key]]

\* EquivalenceLibrary.add_equivalence(gate, equivalent_circuit)
AddEquivalence(lib, gate, circ) ==
    LET key == Key(gate.name, gate.num_qubits)
        equiv == [params |-> gate.params, circuit |-> circ]
    IN IF key \in DOMAIN lib
       THEN [lib EXCEPT ![key].equivalences = Append(@, equiv)]
       ELSE (key :> [search_base |-> TRUE, equivalences |-> <<equiv>>]) @@ lib

\* EquivalenceLibrary._get_equivalences(key)
GetEquivalences(lib, key) ==
    IF key \in DOMAIN lib THEN lib[key].equivalences ELSE <<>>

\* The lookup of a key with no entry creates an empty entry under it.
LookedUpCreating(lib, key) ==
    IF key \in DOMAIN lib THEN lib
    ELSE (key :> [search_base |-> TRUE, equivalences |-> <<>>]) @@ lib

\* The library after _get_equivalences(key): the lookup stores nothing
LookedUp(lib, key) == lib

\* The keys _basis_search looks up when it expands a basis: every name of
\* the basis under every n of range(20)
LookupKeys(basis) == {Key(g, n) : g \in basis, n \in 0..(ArityRange - 1)}

\* The library after the lookups of one name under the arities from n on.
RECURSIVE AfterLookupsOfName(_, _, _)
AfterLookupsOfName(lib, g, n) ==
    IF n >= ArityRange THEN lib
    ELSE \* the library is worked out before the next lookup
         LET next == CHOOSE r \in {LookedUp(lib, Key(g, n))} : TRUE
         IN IF next = lib THEN AfterLookupsOfName(lib, g, n + 1)
            ELSE AfterLookupsOfName(next, g, n + 1)

\* The library after the lookups of every name of a basis.
RECURSIVE AfterLookups(_, _)
AfterLookups(lib, names) ==
    IF names = {} THEN lib
    ELSE LET g == CHOOSE x \in names : TRUE
         IN AfterLookups(AfterLookupsOfName(lib, g, 0), names \ {g})

\* ------------------------------------------------------------ the planner
\* _basis_heuristic(basis, target) = len(basis ^ target)
BasisHeuristic(basis, target) ==
    Cardinality((basis \ target) \cup (target \ basis))

\* [(param, equiv) for n in range(20)
\*                 for param, equiv in equiv_lib._get_equivalences((gate_name, n))]
RECURSIVE EquivsOf(_, _, _)
EquivsOf(lib, gate_name, n) ==
    IF n >= ArityRange THEN <<>>
    ELSE GetEquivalences(lib, Key(gate_name, n)) \o EquivsOf(lib, gate_name, n + 1)

\* The neighbors of current_basis through gate_name, in library order.
NeighborsOf(lib, current_basis, gate_name) ==
    LET equivs == EquivsOf(lib, gate_name, 0)
        basis_remain == current_basis \ {gate_name}
    IN [k \in 1..Len(equivs) |->
          [neighbor |-> basis_remain \cup CountOps(equivs[k].circuit),
           gate_name |-> gate_name,
           params |-> equivs[k].params,
           equiv |-> equivs[k].circuit]]

\* for gate_name in current_basis: ... in the order the set is iterated
RECURSIVE NeighborList(_, _, _)
NeighborList(lib, current_basis, order) ==
    IF order = <<>> THEN <<>>
    ELSE NeighborsOf(lib, current_basis, Head(order))
            \o NeighborList(lib, current_basis, Tail(order))

\* Every order in which the names of a set can be iterated.
RECURSIVE Orders(_)
Orders(S) ==
    IF S = {} THEN {<<>>}
    ELSE UNION {{<<x>> \o r : r \in Orders(S \ {x})} : x \in S}

\* The names of a basis that have an equivalence.  A name without one adds
\* no neighbor, so its place in the iteration order changes nothing.
Rewritable(lib, basis) == {g \in basis : EquivsOf(lib, g, 0) # <<>>}

\* No neighbor is taken for closed.
IsClosedNever(neighbor, closed) == FALSE

\* if neighbor in closed_set: continue
IsClosed(neighbor, closed) == neighbor \in closed

\* Only a higher cost counts as no improvement: an equal cost is written.
NoImprovementOnlyIfHigher(tentative, cost, neighbor) ==
    neighbor \in DOMAIN cost /\ tentative > cost[neighbor]

\* if tentative_cost_from_source >= cost_from_source[neighbor]: continue
\* (a basis never seen costs np.inf)
NoImprovement(tentative, cost, neighbor) ==
    neighbor \in DOMAIN cost /\ tentative >= cost[neighbor]

\* The body for one neighbor without the heappush: the neighbor is put in
\* open_set and its records are written, no entry is queued for it.
RelaxUnqueued(s, closed, current_basis, target, nb) ==
    LET tentative == s.cost[current_basis] + EdgeCost
    IN IF IsClosed(nb.neighbor, closed) THEN s
       ELSE IF NoImprovement(tentative, s.cost, nb.neighbor) THEN s
       ELSE [open_set |-> s.open_set \cup {nb.neighbor},
             came_from |-> (nb.neighbor :>
                               [prev_basis |-> current_basis,
                                gate_name |-> nb.gate_name,
                                params |-> nb.params,
                                equiv |-> nb.equiv]) @@ s.came_from,
             cost |-> (nb.neighbor :> tentative) @@ s.cost,
             est |-> (nb.neighbor :> tentative
                        + CostUnitsPerOne * BasisHeuristic(nb.neighbor, target)) @@ s.est,
             heap |-> s.heap,
             count |-> s.count]

\* The body for one neighbor with came_from written only for a basis that
\* has no record yet: an improved basis keeps its first predecessor.
RelaxKeepingPredecessor(s, closed, current_basis, target, nb) ==
    LET tentative == s.cost[current_basis] + EdgeCost
    IN IF IsClosed(nb.neighbor, closed) THEN s
       ELSE IF NoImprovement(tentative, s.cost, nb.neighbor) THEN s
       ELSE [open_set |-> s.open_set \cup {nb.neighbor},
             came_from |-> s.came_from @@
                              (nb.neighbor :>
                                  [prev_basis |-> current_basis,
                                   gate_name |-> nb.gate_name,
                                   params |-> nb.params,
                                   equiv |-> nb.equiv]),
             cost |-> (nb.neighbor :> tentative) @@ s.cost,
             est |-> (nb.neighbor :> tentative
                        + CostUnitsPerOne * BasisHeuristic(nb.neighbor, target)) @@ s.est,
             heap |-> s.heap \cup {[prio |-> tentative
                                       + CostUnitsPerOne * BasisHeuristic(nb.neighbor, target),
                                    count |-> s.count,
                                    basis |-> nb.neighbor]},
             count |-> s.count + 1]

\* The body of "for neighbor, params, equiv in neighbors" for one neighbor.
Relax(s, closed, current_basis, target, nb) ==
    LET tentative == s.cost[current_basis] + EdgeCost
    IN IF IsClosed(nb.neighbor, closed) THEN s
       ELSE IF NoImprovement(tentative, s.cost, nb.neighbor) THEN s
       ELSE LET est == tentative
                        + CostUnitsPerOne * BasisHeuristic(nb.neighbor, target)
            IN [open_set |-> s.open_set \cup {nb.neighbor},
                came_from |-> (nb.neighbor :>
                                  [prev_basis |-> current_basis,
                                   gate_name |-> nb.gate_name,
                                   params |-> nb.params,
                                   equiv |-> nb.equiv]) @@ s.came_from,
                cost |-> (nb.neighbor :> tentative) @@ s.cost,
                est |-> (nb.neighbor :> est) @@ s.est,
                heap |-> s.heap \cup {[prio |-> est, count |-> s.count,
                                       basis |-> nb.neighbor]},
                count |-> s.count + 1]

RECURSIVE Expand(_, _, _, _, _, _)
Expand(s, closed, current_basis, target, nbs, k) ==
    IF k > Len(nbs) THEN s
    ELSE CHOOSE r \in {Expand(s1, closed, current_basis, target, nbs, k + 1) :
                          s1 \in {Relax(s, closed, current_basis, target, nbs[k])}} : TRUE

\* The basis stays in open_set when it is closed.
NotRemoved(open, current_basis) == open

\* open_set.remove(current_basis)
Removed(open, current_basis) == open \ {current_basis}

\* Among the entries of least priority the one pushed last.
HeapMinLastPushed(heap) ==
    CHOOSE e \in heap : \A f \in heap :
        e.prio < f.prio \/ (e.prio = f.prio /\ e.count >= f.count)

\* heappop(open_heap): least (priority, count); counts are unique
HeapMin(heap) ==
    CHOOSE e \in heap : \A f \in heap :
        e.prio < f.prio \/ (e.prio = f.prio /\ e.count <= f.count)

\* A goal as soon as one name of the basis is a target name.
IsGoalNotDisjoint(current_basis, target) ==
    current_basis = {} \/ current_basis \cap target # {}

\* if current_basis.issubset(target_basis)
IsGoal(current_basis, target) == current_basis \subseteq target

\* rtn, before rtn.reverse(): the walk over came_from from last_basis back
\* to source_basis.  ok is FALSE on a missing key.
RECURSIVE WalkBack(_, _, _, _)
WalkBack(cf, last_basis, source, fuel) ==
    IF last_basis = source THEN [ok |-> TRUE, rtn |-> <<>>]
    ELSE IF last_basis \notin DOMAIN cf \/ fuel = 0 THEN [ok |-> FALSE, rtn |-> <<>>]
    ELSE LET r == cf[last_basis]
             rest == WalkBack(cf, r.prev_basis, source, fuel - 1)
         IN [ok |-> rest.ok,
             rtn |-> <<[gate_name |-> r.gate_name, params |-> r.params,
                        equiv |-> r.equiv]>> \o rest.rtn]

Reverse(s) == [k \in 1..Len(s) |-> s[Len(s) + 1 - k]]

\* The path returned as it was walked, last transform first.
PathNotReversed(rtn) == rtn

\* rtn.reverse(); return rtn
ReturnedPath(rtn) == Reverse(rtn)

\* ------------------------------------------------------------- the inputs
\* Qubits and clbits are numbered from 1 (q[0] of the source is wire 1).
th == Par("th", 0)

\* The equivalences a caller may have added to the library, as
\* add_equivalence(gate, circuit) calls, in this order.
RulePool == <<
    \* test_basis_translator.py: cxy(th) = cx . u1(th) . cx
    [gate |-> [name |-> "cxy", num_qubits |-> 2, params |-> <<th>>],
     circuit |-> Circuit(2, <<Instr("cx", <<>>, <<1, 2>>, <<>>),
                              Instr("u1", <<th>>, <<1>>, <<>>),
                              Instr("cx", <<>>, <<1, 2>>, <<>>)>>)],
    \* returnStandardRules: h = u2(0, pi)
    [gate |-> [name |-> "h", num_qubits |-> 1, params |-> <<>>],
     circuit |-> Circuit(1, <<Instr("u2", <<Num(0), Num(Pi)>>, <<1>>, <<>>)>>)],
    \* returnStandardRules: cx = h . cz . h
    [gate |-> [name |-> "cx", num_qubits |-> 2, params |-> <<>>],
     circuit |-> Circuit(2, <<Instr("h", <<>>, <<2>>, <<>>),
                              Instr("cz", <<>>, <<1, 2>>, <<>>),
                              Instr("h", <<>>, <<2>>, <<>>)>>)],
    \* returnStandardRules: swap = cx . cx . cx
    [gate |-> [name |-> "swap", num_qubits |-> 2, params |-> <<>>],
     circuit |-> Circuit(2, <<Instr("cx", <<>>, <<1, 2>>, <<>>),
                              Instr("cx", <<>>, <<2, 1>>, <<>>),
                              Instr("cx", <<>>, <<1, 2>>, <<>>)>>)],
    \* returnStandardRules: cz = h . cx . h
    [gate |-> [name |-> "cz", num_qubits |-> 2, params |-> <<>>],
     circuit |-> Circuit(2, <<Instr("h", <<>>, <<2>>, <<>>),
                              Instr("cx", <<>>, <<1, 2>>, <<>>),
                              Instr("h", <<>>, <<2>>, <<>>)>>)],
    \* test_transpiler.py: a second equivalence of cxy, cz . u1(pi - th) . cz
    [gate |-> [name |-> "cxy", num_qubits |-> 2, params |-> <<th>>],
     circuit |-> Circuit(2, <<Instr("cz", <<>>, <<1, 2>>, <<>>),
                              Instr("u1", <<Lin(-1, th, Pi)>>, <<1>>, <<>>),
                              Instr("cz", <<>>, <<1, 2>>, <<>>)>>)],
    \* a gate on 20 qubits (a multi-controlled x) with one equivalence
    [gate |-> [name |-> "mcx", num_qubits |-> 20, params |-> <<>>],
     circuit |-> Circuit(20, <<Instr("cx", <<>>, <<1, 20>>, <<>>)>>)]
    >>

\* The library after add_equivalence for the rules of S, in pool order.
RECURSIVE BuildLibrary(_, _, _)
BuildLibrary(lib, S, k) ==
    IF k > Len(RulePool) THEN lib
    ELSE BuildLibrary(
            IF k \in S THEN AddEquivalence(lib, RulePool[k].gate, RulePool[k].circuit)
            ELSE lib,
            S, k + 1)

LibraryOf(S) == BuildLibrary(EmptyLibrary, S, 1)

\* Libraries of whole translator runs: empty, the caller's own equivalence
\* (the test's cxy), an excerpt of the standard rules seeded as a whole, and both.
UserRules == {1}
StandardRules == {3, 4}
RunRuleSets == {{}, UserRules, StandardRules, UserRules \cup StandardRules}
\* Libraries handed to the planner alone: at most MaxRules rules of the pool.
SearchRuleSets == {S \in SUBSET (1..Len(RulePool)) : Cardinality(S) <= MaxRules}

\* target_basis arguments of BasisTranslator(library, target_basis)
TargetChoices == {{"cx", "u1"}, {"cx", "h", "cz"}, {"h", "cz", "u1"}, {}}

\* Gate names a source basis handed to the planner is drawn from.
SourceNames == {"h", "cx", "cz", "swap", "cxy", "mcx"}

SourceBases == {B \in SUBSET SourceNames : Cardinality(B) <= MaxBasis}

\* Op nodes an input DAG is made of (a free Parameter a of the caller).
NodePool == {
    Instr("cx", <<>>, <<1, 2>>, <<>>),
    Instr("swap", <<>>, <<1, 2>>, <<>>),
    Instr("cxy", <<Num(5)>>, <<1, 2>>, <<>>),
    Instr("cxy", <<Par("a", 0)>>, <<2, 1>>, <<>>),
    Instr("cxy", <<>>, <<1, 2>>, <<>>),
    Instr("measure", <<>>, <<1>>, <<1>>)}

\* Input DAGs: the op nodes in topological order, no two of them alike.
DagInputs ==
    {d \in UNION {[1..n -> NodePool] : n \in 0..MaxNodes} :
        \A j, k \in 1..Len(d) : d[j] = d[k] => j = k}

\* --------------------------------------------------------------- the state
VARIABLES
    equiv_lib,          \* self._equiv_lib
    snapshot,           \* the contents of the library when run was called
    self_target_basis,  \* self._target_basis
    pc,                 \* where the translator is
    dag,                \* the DAG handed to run, rewritten in place
    source_basis, target_basis,
    open_set, closed_set, open_heap, came_from,
    cost_from_source, est_total_cost, basis_count,
    basis_transforms,   \* what _basis_search returned
    instr_map,          \* mapped_ops of _compose_transforms
    plan_i,             \* transforms of basis_transforms already composed
    node_i,             \* op nodes of the input already visited by run
    err,                \* the exception that left run
    dag0,               \* the input DAG as it was handed to run
    segs,               \* segs[k]: the nodes that now stand for input node k
    composed,           \* the mapping as _compose_transforms returned it
    runs,               \* executions of _basis_search so far
    history,            \* what the earlier executions returned; under
                        \* LibrarySpec, the calls made on the library
    graph,              \* ApproximateTokenSwapper.graph
    mapping, trials,    \* the arguments of map
    tokens, digraph, sub_digraph, todo_nodes, steps,   \* of the trial at work
    swaps,              \* the edges the trial at work has yielded
    trial_results,      \* the lists of the trials that ended
    swap_pc,            \* where the token swapper is
    swap_rtn            \* what map returned

libVars == <<equiv_lib, snapshot, self_target_basis>>
searchVars == <<open_set, closed_set, open_heap, came_from,
                cost_from_source, est_total_cost, basis_count>>
dagVars == <<dag, dag0, segs, instr_map, composed, plan_i, node_i>>
swapVars == <<graph, mapping, trials, tokens, digraph, sub_digraph, todo_nodes,
              steps, swaps, trial_results, swap_pc, swap_rtn>>
translatorVars == <<equiv_lib, snapshot, self_target_basis, pc, dag, source_basis,
                    target_basis, open_set, closed_set, open_heap, came_from,
                    cost_from_source, est_total_cost, basis_count, basis_transforms,
                    instr_map, plan_i, node_i, err, dag0, segs, composed, runs, history>>
vars == <<translatorVars, swapVars>>

EmptyMap == [b \in {} |-> b]
None == [found |-> FALSE, rtn |-> <<>>]
NoError == [kind |-> "none", source |-> {}, target |-> {}]

NoGraph == [nodes |-> {}, edges |-> {}]

\* No token swapper at work.
SwapIdle ==
    /\ graph = NoGraph /\ mapping = EmptyMap /\ trials = 0
    /\ tokens = EmptyMap /\ digraph = NoGraph /\ sub_digraph = NoGraph
    /\ todo_nodes = {} /\ steps = 0 /\ swaps = <<>> /\ trial_results = <<>>
    /\ swap_pc = "idle" /\ swap_rtn = <<>>

Idle ==
    /\ SwapIdle
    /\ pc = "idle"
    /\ snapshot = equiv_lib
    /\ dag = <<>> /\ dag0 = <<>> /\ segs = <<>>
    /\ source_basis = {} /\ target_basis = {}
    /\ open_set = {} /\ closed_set = {} /\ open_heap = {}
    /\ came_from = EmptyMap /\ cost_from_source = EmptyMap
    /\ est_total_cost = EmptyMap /\ basis_count = 0
    /\ basis_transforms = None
    /\ instr_map = EmptyMap /\ plan_i = 0 /\ node_i = 0
    /\ composed = EmptyMap
    /\ err = NoError
    /\ runs = 0 /\ history = <<>>

\* BasisTranslator(equivalence_library, target_basis)
Init ==
    /\ equiv_lib \in {LibraryOf(S) : S \in RunRuleSets}
    /\ self_target_basis \in TargetChoices
    /\ Idle

SearchInit ==
    /\ equiv_lib \in {LibraryOf(S) : S \in SearchRuleSets}
    /\ self_target_basis \in TargetChoices
    /\ Idle

\* set(self._target_basis).union(basic_instrs)
TargetBasis(tb) == tb \cup basic_instrs

\* set(node.name for node in dag.op_nodes())
SourceBasis(d) == {d[k].name : k \in 1..Len(d)}

\* _basis_search, lines 139-162: the state before the first iteration.
\* The first heap entry has priority 0, not the estimate.
BeginSearch(source, target) ==
    /\ source_basis' = source
    /\ target_basis' = target
    /\ open_set' = {source}
    /\ closed_set' = {}
    /\ open_heap' = {[prio |-> 0, count |-> 0, basis |-> source]}
    /\ came_from' = EmptyMap
    /\ basis_count' = 1
    /\ cost_from_source' = (source :> 0)
    /\ est_total_cost' = (source :> CostUnitsPerOne * BasisHeuristic(source, target))
    /\ basis_transforms' = None
    /\ pc' = "search"

\* run(dag), lines 60-68: up to the call of _basis_search
Run(d) ==
    /\ pc = "idle"
    /\ dag' = d /\ dag0' = d
    /\ segs' = <<>> /\ node_i' = 0 /\ plan_i' = 0 /\ instr_map' = EmptyMap
    /\ composed' = EmptyMap
    /\ BeginSearch(SourceBasis(d), TargetBasis(self_target_basis))
    /\ runs' = 1
    /\ UNCHANGED <<libVars, swapVars, err, history>>

\* _basis_search called on a source basis; called again on the same inputs
\* once it has returned.
CallBasisSearch(source) ==
    /\ \/ pc = "idle" /\ history' = history
       \/ /\ pc = "searched" /\ runs < MaxRuns /\ source = source_basis
          /\ history' = Append(history, basis_transforms)
    /\ BeginSearch(source, TargetBasis(self_target_basis))
    /\ runs' = runs + 1
    /\ UNCHANGED <<libVars, swapVars, dagVars, err>>

\* The iteration at hand reaches the loop over the names of current_basis.
Expanding ==
    /\ open_heap # {}
    /\ HeapMin(open_heap).basis \notin closed_set
    /\ ~IsGoal(HeapMin(open_heap).basis, target_basis)

\* One iteration of "while open_set"; order is the order in which
\* "for gate_name in current_basis" meets the names.
BasisSearchStep ==
    /\ pc = "search"
    /\ open_set # {}
    /\ basis_count < MaxCount
    /\ IF open_heap = {}
       THEN \* heappop on an empty heap
            /\ pc' = "error"
            /\ err' = [NoError EXCEPT !.kind = "IndexError"]
            /\ UNCHANGED <<searchVars, basis_transforms>>
       ELSE LET e == HeapMin(open_heap)
                current_basis == e.basis
            IN IF current_basis \in closed_set
               THEN /\ open_heap' = open_heap \ {e}
                    /\ UNCHANGED <<open_set, closed_set, came_from, cost_from_source,
                                   est_total_cost, basis_count, basis_transforms,
                                   pc, err>>
               ELSE IF IsGoal(current_basis, target_basis)
               THEN LET w == WalkBack(came_from, current_basis, source_basis,
                                      Cardinality(DOMAIN came_from))
                    IN /\ open_heap' = open_heap \ {e}
                       /\ IF w.ok
                          THEN /\ basis_transforms' =
                                    [found |-> TRUE, rtn |-> ReturnedPath(w.rtn)]
                               /\ pc' = "searched"
                               /\ err' = err
                          ELSE /\ basis_transforms' = basis_transforms
                               /\ pc' = "error"
                               /\ err' = [NoError EXCEPT !.kind = "KeyError"]
                       /\ UNCHANGED <<open_set, closed_set, came_from,
                                      cost_from_source, est_total_cost, basis_count>>
               ELSE \E order \in Orders(Rewritable(equiv_lib, current_basis)) :
                    \E neighbors \in {NeighborList(equiv_lib, current_basis, order)} :
                    \E s1 \in {Expand([open_set |-> Removed(open_set, current_basis),
                                       came_from |-> came_from,
                                       cost |-> cost_from_source,
                                       est |-> est_total_cost,
                                       heap |-> open_heap \ {e},
                                       count |-> basis_count],
                                      closed_set \cup {current_basis},
                                      current_basis, target_basis,
                                      neighbors, 1)} :
                       /\ closed_set' = closed_set \cup {current_basis}
                       /\ open_set' = s1.open_set
                       /\ came_from' = s1.came_from
                       /\ cost_from_source' = s1.cost
                       /\ est_total_cost' = s1.est
                       /\ open_heap' = s1.heap
                       /\ basis_count' = s1.count
                       /\ UNCHANGED <<basis_transforms, pc, err>>
    /\ equiv_lib' = IF Expanding
                    THEN AfterLookups(equiv_lib, HeapMin(open_heap).basis)
                    ELSE equiv_lib
    /\ UNCHANGED <<snapshot, self_target_basis, swapVars, dagVars, source_basis, target_basis,
                   runs, history>>

\* The loop ends with open_set empty: return None
BasisSearchNone ==
    /\ pc = "search"
    /\ open_set = {}
    /\ basis_transforms' = None
    /\ pc' = "searched"
    /\ UNCHANGED <<libVars, swapVars, dagVars, searchVars, source_basis, target_basis,
                   err, runs, history>>

\* ------------------------------------------------------------ DAG circuits
Dag(num_qubits, nodes) == [num_qubits |-> num_qubits, nodes |-> nodes]

\* qiskit.converters.dag_to_circuit: the op nodes in topological order
DagToCircuit(d) == Circuit(d.num_qubits, d.nodes)

\* qiskit.converters.circuit_to_dag
CircuitToDag(circ) == Dag(circ.num_qubits, circ.data)

RECURSIVE Flatten(_)
Flatten(ss) == IF ss = <<>> THEN <<>> ELSE Head(ss) \o Flatten(Tail(ss))

\* The nodes DAGCircuit.substitute_node_with_dag(node, input_dag) puts in the
\* place of node: wire k of input_dag is the k-th wire of node.
Rewire(node, input_dag) ==
    [k \in 1..Len(input_dag.nodes) |->
        [input_dag.nodes[k] EXCEPT
            !.qargs = [j \in 1..Len(@) |-> node.qargs[@[j]]],
            !.cargs = [j \in 1..Len(@) |-> node.cargs[@[j]]]]]

\* substitute_node_with_dag raises unless input_dag has the wires of node.
WiresMismatch(node, input_dag) == input_dag.num_qubits # Len(node.qargs)

\* The node takes the wires of the operation that replaces it.
SubstituteNodeOnOpWires(node, op) ==
    [node EXCEPT !.name = op.name, !.params = op.params, !.qargs = op.qargs]

\* DAGCircuit.substitute_node(node, op, inplace=True): the node keeps its wires
SubstituteNode(node, op) == [node EXCEPT !.name = op.name, !.params = op.params]

\* ------------------------------------------------------------ the composer
\* example_gates = {node.name: node.op for node in source_dag.op_nodes()}:
\* the last node of a name wins
ExampleGate(d, gate_name) ==
    d[CHOOSE k \in 1..Len(d) :
        /\ d[k].name = gate_name
        /\ \A j \in (k + 1)..Len(d) : d[j].name # gate_name]

\* ParameterVector(gate_name, num_params)
ParameterVector(name, length) == [k \in 1..length |-> Par(name, k - 1)]

\* Placeholder DAGs only for the source gates that take parameters.
PlaceholdersOfParameterized(source, d) ==
    [gate_name \in {g \in source : Len(ExampleGate(d, g).params) > 0} |->
        LET example_gate == ExampleGate(d, gate_name)
            num_params == Len(example_gate.params)
            num_qubits == Len(example_gate.qargs)
            placeholder_params == ParameterVector(gate_name, num_params)
        IN [params |-> placeholder_params,
            dag |-> Dag(num_qubits,
                        <<Instr(gate_name, placeholder_params,
                                [k \in 1..num_qubits |-> k], <<>>)>>)]]

\* _compose_transforms, lines 240-258: one placeholder DAG per source gate
Placeholders(source, d) ==
    [gate_name \in source |->
        LET example_gate == ExampleGate(d, gate_name)
            num_params == Len(example_gate.params)
            num_qubits == Len(example_gate.qargs)
            placeholder_params == ParameterVector(gate_name, num_params)
        IN [params |-> placeholder_params,
            dag |-> Dag(num_qubits,
                        <<Instr(gate_name, placeholder_params,
                                [k \in 1..num_qubits |-> k], <<>>)>>)]]

\* The parameters are substituted or bound in equiv itself, not in a copy.
BindInPlace(equiv, equiv_params, node_params) ==
    [replacement |-> BindZip(equiv, equiv_params, node_params, 1),
     equiv |-> BindZip(equiv, equiv_params, node_params, 1)]

\* replacement = equiv.copy(), then each equiv_param is substituted or bound
\* in replacement; equiv is the circuit the library holds, as it is afterwards.
CopyAndBind(equiv, equiv_params, node_params) ==
    [replacement |-> BindZip(equiv, equiv_params, node_params, 1),
     equiv |-> equiv]

\* Only the first node of the name is replaced.
RECURSIVE ComposeFirstNode(_, _, _, _, _)
ComposeFirstNode(c, nodes, k, gate_name, equiv_params) ==
    IF k > Len(nodes) \/ ~c.ok THEN c
    ELSE IF nodes[k].name # gate_name
    THEN ComposeFirstNode([c EXCEPT !.nodes = Append(@, nodes[k])],
                          nodes, k + 1, gate_name, equiv_params)
    ELSE LET b == CopyAndBind(c.equiv, equiv_params, nodes[k].params)
             replacement_dag == CircuitToDag(b.replacement)
         IN IF WiresMismatch(nodes[k], replacement_dag)
            THEN [c EXCEPT !.ok = FALSE]
            ELSE [nodes |-> c.nodes \o Rewire(nodes[k], replacement_dag)
                                \o SubSeq(nodes, k + 1, Len(nodes)),
                  equiv |-> b.equiv, ok |-> TRUE]

\* "for node in doomed_nodes" on the nodes of one mapped DAG, from node k on.
\* c.nodes: the rewritten DAG so far; c.equiv: the library's circuit;
\* c.ok: no substitute_node_with_dag has raised.
RECURSIVE ComposeNodes(_, _, _, _, _)
ComposeNodes(c, nodes, k, gate_name, equiv_params) ==
    IF k > Len(nodes) \/ ~c.ok THEN c
    ELSE IF nodes[k].name # gate_name
    THEN ComposeNodes([c EXCEPT !.nodes = Append(@, nodes[k])],
                      nodes, k + 1, gate_name, equiv_params)
    ELSE LET b == CopyAndBind(c.equiv, equiv_params, nodes[k].params)
             replacement_dag == CircuitToDag(b.replacement)
         IN IF WiresMismatch(nodes[k], replacement_dag)
            THEN [c EXCEPT !.ok = FALSE]
            ELSE ComposeNodes([nodes |-> c.nodes \o Rewire(nodes[k], replacement_dag),
                               equiv |-> b.equiv, ok |-> TRUE],
                              nodes, k + 1, gate_name, equiv_params)

\* "for mapped_op_name, (dag_params, dag) in mapped_ops.items()" for one
\* transform, the items met in the given order.
RECURSIVE ComposeOne(_, _, _)
ComposeOne(m, transform, order) ==
    IF order = <<>> \/ ~m.ok THEN m
    ELSE LET name == Head(order)
             c == ComposeNodes([nodes |-> <<>>, equiv |-> m.equiv, ok |-> TRUE],
                               m.mapped_ops[name].dag.nodes, 1,
                               transform.gate_name, transform.params)
         IN ComposeOne([mapped_ops |-> [m.mapped_ops EXCEPT ![name].dag.nodes = c.nodes],
                        equiv |-> c.equiv,
                        ok |-> c.ok],
                       transform, Tail(order))

\* Only the mapped DAG of gate_name itself is looked at.
HoldingOwnName(mapped_ops, gate_name) == {gate_name} \cap DOMAIN mapped_ops

\* The mapped DAGs that hold a node named gate_name (doomed_nodes is empty
\* for the others, which the transform leaves as they are).
Holding(mapped_ops, gate_name) ==
    {name \in DOMAIN mapped_ops :
        \E k \in 1..Len(mapped_ops[name].dag.nodes) :
            mapped_ops[name].dag.nodes[k].name = gate_name}

\* The library in which the circuit object old reads as new.
WithCircuit(lib, old, new) ==
    [key \in DOMAIN lib |->
        [lib[key] EXCEPT !.equivalences =
            [k \in 1..Len(@) |->
                IF @[k].circuit = old THEN [@[k] EXCEPT !.circuit = new] ELSE @[k]]]]

\* ------------------------------------------------------------- the applier
\* The message built from self._target_basis, without basic_instrs.
UnableToMapBareTarget(source, target) ==
    [kind |-> "TranspilerError", source |-> source, target |-> target \ basic_instrs]

\* 'Unable to map source basis {} to target basis {} over library {}.'
UnableToMap(source, target) ==
    [kind |-> "TranspilerError", source |-> source, target |-> target]

\* Only the names of basic_instrs are left alone.
InBasicInstrs(node, target) == node.name \in basic_instrs

\* if node.name in target_basis: continue
InTarget(node, target) == node.name \in target

\* The parameters are bound in the DAG that instr_map holds.
BindInMap(target_dag, target_params, node_params) ==
    [bound_target_dag |->
        CircuitToDag(BindZip(DagToCircuit(target_dag), target_params, node_params, 1)),
     target_dag |->
        CircuitToDag(BindZip(DagToCircuit(target_dag), target_params, node_params, 1))]

\* target_circuit = dag_to_circuit(target_dag), then each target_param is
\* substituted or bound in target_circuit; target_dag is the DAG instr_map
\* holds, as it is afterwards.
ConvertAndBind(target_dag, target_params, node_params) ==
    [bound_target_dag |->
        CircuitToDag(BindZip(DagToCircuit(target_dag), target_params, node_params, 1)),
     target_dag |-> target_dag]

\* The first operation of the replacement is substituted in place whenever
\* it acts on as many qubits as the node.
SubstitutionFirstNode(node, bound_target_dag) ==
    IF /\ Len(bound_target_dag.nodes) >= 1
       /\ Len(bound_target_dag.nodes[1].qargs) = Len(node.qargs)
    THEN [ok |-> TRUE, nodes |-> <<SubstituteNode(node, bound_target_dag.nodes[1])>>]
    ELSE IF WiresMismatch(node, bound_target_dag)
    THEN [ok |-> FALSE, nodes |-> <<node>>]
    ELSE [ok |-> TRUE, nodes |-> Rewire(node, bound_target_dag)]

\* lines 114-118: the nodes that take the place of node, or a raise
Substitution(node, bound_target_dag) ==
    IF /\ Len(bound_target_dag.nodes) = 1
       /\ Len(bound_target_dag.nodes[1].qargs) = Len(node.qargs)
    THEN [ok |-> TRUE, nodes |-> <<SubstituteNode(node, bound_target_dag.nodes[1])>>]
    ELSE IF WiresMismatch(node, bound_target_dag)
    THEN [ok |-> FALSE, nodes |-> <<node>>]
    ELSE [ok |-> TRUE, nodes |-> Rewire(node, bound_target_dag)]

\* Position in dag of the next input node run visits.
Cursor == Len(Flatten(segs)) + 1

\* dag with the node at position k replaced by nodes
Replaced(d, k, nodes) == SubSeq(d, 1, k - 1) \o nodes \o SubSeq(d, k + 1, Len(d))

AfterCompose(n_composed) ==
    IF n_composed < Len(basis_transforms.rtn) THEN "compose"
    ELSE IF Len(dag0) = 0 THEN "done" ELSE "apply"

\* run, lines 73-77: the planner found no path
RaiseUnableToMap ==
    /\ pc = "searched"
    /\ ~basis_transforms.found
    /\ pc' = "error"
    /\ err' = UnableToMap(source_basis, target_basis)
    /\ UNCHANGED <<libVars, swapVars, dagVars, searchVars, source_basis, target_basis,
                   basis_transforms, runs, history>>

\* run, line 80 and _compose_transforms, lines 240-258
ComposePlaceholders ==
    /\ pc = "searched"
    /\ basis_transforms.found
    /\ instr_map' = Placeholders(source_basis, dag)
    /\ plan_i' = 0
    /\ pc' = AfterCompose(0)
    /\ composed' = IF AfterCompose(0) = "compose" THEN composed ELSE instr_map'
    /\ UNCHANGED <<libVars, swapVars, dag, dag0, segs, node_i, searchVars, source_basis,
                   target_basis, basis_transforms, err, runs, history>>

\* _compose_transforms, lines 260-288: one transform of basis_transforms
ComposeTransform ==
    /\ pc = "compose"
    /\ LET transform == basis_transforms.rtn[plan_i + 1]
       IN \E order \in Orders(Holding(instr_map, transform.gate_name)) :
          \E m \in {ComposeOne([mapped_ops |-> instr_map, equiv |-> transform.equiv,
                                ok |-> TRUE], transform, order)} :
             /\ equiv_lib' = WithCircuit(equiv_lib, transform.equiv, m.equiv)
             /\ IF m.ok
                THEN /\ instr_map' = m.mapped_ops
                     /\ plan_i' = plan_i + 1
                     /\ pc' = AfterCompose(plan_i + 1)
                     /\ composed' = IF AfterCompose(plan_i + 1) = "compose"
                                    THEN composed ELSE m.mapped_ops
                     /\ err' = err
                ELSE /\ pc' = "error"
                     /\ err' = [NoError EXCEPT !.kind = "DAGCircuitError"]
                     /\ UNCHANGED <<instr_map, plan_i, composed>>
    /\ UNCHANGED <<snapshot, self_target_basis, swapVars, dag, dag0, segs, node_i, searchVars,
                   source_basis, target_basis, basis_transforms, runs, history>>

\* run, lines 86-122: one op node of the input, and "return dag" after the last
ApplyNode ==
    /\ pc = "apply"
    /\ LET node == dag[Cursor]
           done == IF node_i + 1 = Len(dag0) THEN "done" ELSE "apply"
       IN IF InTarget(node, target_basis)
          THEN /\ segs' = Append(segs, <<node>>)
               /\ node_i' = node_i + 1
               /\ pc' = done
               /\ UNCHANGED <<dag, instr_map, err>>
          ELSE IF node.name \in DOMAIN instr_map
          THEN LET target_params == instr_map[node.name].params
                   target_dag == instr_map[node.name].dag
               IN IF Len(node.params) # Len(target_params)
                  THEN \* the message names an unbound variable, target
                       /\ pc' = "error"
                       /\ err' = [NoError EXCEPT !.kind = "NameError"]
                       /\ UNCHANGED <<dag, instr_map, segs, node_i>>
                  ELSE \E b \in {ConvertAndBind(target_dag, target_params, node.params)} :
                       \E sub \in {Substitution(node, b.bound_target_dag)} :
                          /\ instr_map' = [instr_map EXCEPT ![node.name].dag = b.target_dag]
                          /\ IF sub.ok
                             THEN /\ dag' = Replaced(dag, Cursor, sub.nodes)
                                  /\ segs' = Append(segs, sub.nodes)
                                  /\ node_i' = node_i + 1
                                  /\ pc' = done
                                  /\ err' = err
                             ELSE /\ pc' = "error"
                                  /\ err' = [NoError EXCEPT !.kind = "DAGCircuitError"]
                                  /\ UNCHANGED <<dag, segs, node_i>>
          ELSE /\ pc' = "error"
               /\ err' = [NoError EXCEPT !.kind = "RuntimeError"]
               /\ UNCHANGED <<dag, instr_map, segs, node_i>>
    /\ UNCHANGED <<libVars, swapVars, dag0, composed, plan_i, searchVars, source_basis,
                   target_basis, basis_transforms, runs, history>>

Next ==
    \/ \E d \in DagInputs : Run(d)
    \/ BasisSearchStep
    \/ BasisSearchNone
    \/ RaiseUnableToMap
    \/ ComposePlaceholders
    \/ ComposeTransform
    \/ ApplyNode

\* BasisTranslator.run on every input DAG.
Spec == Init /\ [][Next]_vars

SearchNext ==
    \/ \E source \in SourceBases : CallBasisSearch(source)
    \/ BasisSearchStep
    \/ BasisSearchNone

\* The planner alone, on every source basis.
SearchSpec == SearchInit /\ [][SearchNext]_vars

\* Libraries on which the planner is run to its end: empty, the cycle
\* cx -> cz -> cx, the cycle within more rules, and gates with no way to
\* most targets.
TerminationRuleSets == {{}, {3, 5}, {3, 4, 5}, {1, 6, 7}}

TerminationInit ==
    /\ equiv_lib \in {LibraryOf(S) : S \in TerminationRuleSets}
    /\ self_target_basis \in TargetChoices
    /\ Idle

\* One call of _basis_search, from its first line to its return.
TerminationNext ==
    \/ \E source \in SourceBases : pc = "idle" /\ CallBasisSearch(source)
    \/ BasisSearchStep
    \/ BasisSearchNone

\* The planner runs to its end: its loop is a sequential program, so an
\* iteration that can be taken is taken.
TerminationSpec ==
    /\ TerminationInit
    /\ [][TerminationNext]_vars
    /\ WF_vars(BasisSearchStep \/ BasisSearchNone)

\* The libraries of test_different_equivalenceLibraries: cxy over cx, cxy
\* over cz, and one library with both equivalences.
TestRuleSets == {{1}, {6}, {1, 6}}

TestLibrariesInit ==
    /\ equiv_lib \in {LibraryOf(S) : S \in TestRuleSets}
    /\ self_target_basis \in TargetChoices
    /\ Idle

\* BasisTranslator.run with the libraries of the test.
TestLibrariesSpec == TestLibrariesInit /\ [][Next]_vars

\* An equivalence a caller adds for a gate ih on two qubits: one u2(0, pi)
\* on its second qubit.
SingleOpRule ==
    [gate |-> [name |-> "ih", num_qubits |-> 2, params |-> <<>>],
     circuit |-> Circuit(2, <<Instr("u2", <<Num(0), Num(Pi)>>, <<2>>, <<>>)>>)]

\* Libraries with equivalences of one operation (h = u2(0, pi), and ih).
SingleOpLibraries ==
    {LibraryOf({2}), LibraryOf({2, 4}),
     AddEquivalence(LibraryOf({2, 4}), SingleOpRule.gate, SingleOpRule.circuit)}

SingleOpTargets == {{"u2"}, {"u2", "cx"}}

SingleOpNodePool == {
    Instr("h", <<>>, <<1>>, <<>>),
    Instr("h", <<>>, <<2>>, <<>>),
    Instr("ih", <<>>, <<2, 1>>, <<>>),
    Instr("swap", <<>>, <<2, 1>>, <<>>),
    Instr("cx", <<>>, <<1, 2>>, <<>>)}

SingleOpDags ==
    {d \in UNION {[1..n -> SingleOpNodePool] : n \in 0..MaxNodes} :
        \A j, k \in 1..Len(d) : d[j] = d[k] => j = k}

SingleOpInit ==
    /\ equiv_lib \in SingleOpLibraries
    /\ self_target_basis \in SingleOpTargets
    /\ Idle

SingleOpNext ==
    \/ \E d \in SingleOpDags : Run(d)
    \/ BasisSearchStep
    \/ BasisSearchNone
    \/ RaiseUnableToMap
    \/ ComposePlaceholders
    \/ ComposeTransform
    \/ ApplyNode

\* BasisTranslator.run on DAGs with nodes whose replacement is one operation.
SingleOpSpec == SingleOpInit /\ [][SingleOpNext]_vars

\* A gate without parameters on the given qubits.
Op(name, qargs) == Instr(name, <<>>, qargs, <<>>)

\* The Toffoli circuit without its last cx.
ToffoliCircuitCutShort ==
    Circuit(3, <<Op("h", <<1>>), Op("cx", <<2, 3>>), Op("tdg", <<3>>),
                 Op("cx", <<1, 3>>), Op("t", <<3>>), Op("cx", <<2, 3>>),
                 Op("tdg", <<3>>), Op("cx", <<1, 3>>), Op("t", <<2>>),
                 Op("t", <<3>>), Op("h", <<3>>), Op("cx", <<1, 2>>),
                 Op("t", <<1>>), Op("tdg", <<2>>)>>)

\* returnStandardRules, lines 80-96: the circuit stored for ToffoliGate
\* (its first operation is h on qubit 0)
ToffoliCircuit ==
    Circuit(3, <<Op("h", <<1>>), Op("cx", <<2, 3>>), Op("tdg", <<3>>),
                 Op("cx", <<1, 3>>), Op("t", <<3>>), Op("cx", <<2, 3>>),
                 Op("tdg", <<3>>), Op("cx", <<1, 3>>), Op("t", <<2>>),
                 Op("t", <<3>>), Op("h", <<3>>), Op("cx", <<1, 2>>),
                 Op("t", <<1>>), Op("tdg", <<2>>), Op("cx", <<1, 2>>)>>)

\* p[0] in the loop of the ms blocks: p is the ParameterVector('th', 1) made
\* at line 417 for rzz, another object than the th of the ms block (line 434),
\* of the same name.
StaleP == Par("th, line 417", 0)

\* returnStandardRules: the blocks of ccx, cswap, cz, swap, h, t, tdg, ms (the
\* first round of its loop, 2 qubits) and cx, and the last block, which names
\* no gate of its own and so is stored under the gate of the block before it
\* (CnotGate).
StandardRulesExcerpt == <<
    [gate |-> [name |-> "ccx", num_qubits |-> 3, params |-> <<>>],
     circuit |-> ToffoliCircuit],
    [gate |-> [name |-> "cswap", num_qubits |-> 3, params |-> <<>>],
     circuit |-> Circuit(3, <<Op("cx", <<3, 2>>), Op("ccx", <<1, 2, 3>>),
                              Op("cx", <<3, 2>>)>>)],
    RulePool[5],
    RulePool[4],
    RulePool[2],
    [gate |-> [name |-> "t", num_qubits |-> 1, params |-> <<>>],
     circuit |-> Circuit(1, <<Instr("u1", <<Num(Pi \div 4)>>, <<1>>, <<>>)>>)],
    [gate |-> [name |-> "tdg", num_qubits |-> 1, params |-> <<>>],
     circuit |-> Circuit(1, <<Instr("u1", <<Num(-(Pi \div 4))>>, <<1>>, <<>>)>>)],
    [gate |-> [name |-> "ms", num_qubits |-> 2, params |-> <<Par("th", 0)>>],
     circuit |-> Circuit(2, <<Instr("u3", <<Num(Pi \div 2), StaleP, Num(0)>>, <<1>>, <<>>),
                              Op("h", <<2>>),
                              Op("cx", <<1, 2>>),
                              Instr("u1", <<Lin(-1, StaleP, 0)>>, <<2>>, <<>>),
                              Op("cx", <<1, 2>>),
                              Op("h", <<2>>),
                              Instr("u2", <<Num(-Pi), Lin(-1, StaleP, Pi)>>, <<1>>, <<>>)>>)],
    RulePool[3],
    [gate |-> [name |-> "cx", num_qubits |-> 2, params |-> <<>>],
     circuit |-> Circuit(1, <<Instr("rz", <<Par("th", 0)>>, <<1>>, <<>>),
                              Instr("rx", <<Num(Pi \div 2)>>, <<1>>, <<>>),
                              Instr("rz", <<Lin(1, Par("th", 1), Pi)>>, <<1>>, <<>>),
                              Instr("rx", <<Num(Pi \div 2)>>, <<1>>, <<>>),
                              Instr("rz", <<Lin(1, Par("th", 2), Pi)>>, <<1>>, <<>>)>>)]
    >>

\* StandardRules[key] = Entry(search_base=True, equivalences=[]) and
\* StandardRules[key].equivalences.append(equiv): the entry of the key is
\* replaced.
StoreRule(rules, gate, circ) ==
    [key \in DOMAIN rules \cup {Key(gate.name, gate.num_qubits)} |->
        IF key = Key(gate.name, gate.num_qubits)
        THEN [search_base |-> TRUE,
              equivalences |-> <<[params |-> gate.params, circuit |-> circ]>>]
        ELSE rules[key]]

RECURSIVE StoreRules(_, _, _)
StoreRules(rules, blocks, k) ==
    IF k > Len(blocks) THEN rules
    ELSE StoreRules(StoreRule(rules, blocks[k].gate, blocks[k].circuit), blocks, k + 1)

\* The dict returnStandardRules returns, which seeds the library.
returnStandardRules == StoreRules(EmptyLibrary, StandardRulesExcerpt, 1)

ToffoliTargets == {{"h", "cx", "t", "tdg"}, {"h", "cx", "t", "tdg", "ccx"}}

ToffoliNodePool == {
    Op("ccx", <<1, 2, 3>>),
    Op("ccx", <<3, 1, 2>>),
    Op("h", <<1>>),
    Op("t", <<2>>)}

\* Input DAGs over the pool, and one DAG of a gate the rules do not hold.
ToffoliDags ==
    {d \in UNION {[1..n -> ToffoliNodePool] : n \in 0..MaxNodes} :
        \A j, k \in 1..Len(d) : d[j] = d[k] => j = k}
    \cup {<<Instr("cxy", <<Num(5)>>, <<1, 2>>, <<>>)>>}

ToffoliInit ==
    /\ equiv_lib = returnStandardRules
    /\ self_target_basis \in ToffoliTargets
    /\ Idle

ToffoliNext ==
    \/ \E d \in ToffoliDags : Run(d)
    \/ BasisSearchStep
    \/ BasisSearchNone
    \/ RaiseUnableToMap
    \/ ComposePlaceholders
    \/ ComposeTransform
    \/ ApplyNode

\* BasisTranslator.run with the library seeded from returnStandardRules.
ToffoliSpec == ToffoliInit /\ [][ToffoliNext]_vars

\* ------------------------------------- bases reached along two paths
\* A library in which one basis is reached along two paths of the search:
\* swap over cx, swap over cz and h, cx = crx(pi), crx = h . crz . h,
\* cz = crz(pi), h = u2(0, pi).  From {swap} the basis {h, crz} lies three
\* rewrites away through cx and crx, two through {cz, h}.
TwoPathRules == <<
    RulePool[4],
    [gate |-> [name |-> "swap", num_qubits |-> 2, params |-> <<>>],
     circuit |-> Circuit(2, <<Instr("h", <<>>, <<2>>, <<>>),
                              Instr("cz", <<>>, <<1, 2>>, <<>>),
                              Instr("h", <<>>, <<2>>, <<>>),
                              Instr("h", <<>>, <<1>>, <<>>),
                              Instr("cz", <<>>, <<2, 1>>, <<>>),
                              Instr("h", <<>>, <<1>>, <<>>),
                              Instr("h", <<>>, <<2>>, <<>>),
                              Instr("cz", <<>>, <<1, 2>>, <<>>),
                              Instr("h", <<>>, <<2>>, <<>>)>>)],
    [gate |-> [name |-> "cx", num_qubits |-> 2, params |-> <<>>],
     circuit |-> Circuit(2, <<Instr("crx", <<Num(Pi)>>, <<1, 2>>, <<>>)>>)],
    [gate |-> [name |-> "crx", num_qubits |-> 2, params |-> <<th>>],
     circuit |-> Circuit(2, <<Instr("h", <<>>, <<2>>, <<>>),
                              Instr("crz", <<th>>, <<1, 2>>, <<>>),
                              Instr("h", <<>>, <<2>>, <<>>)>>)],
    [gate |-> [name |-> "cz", num_qubits |-> 2, params |-> <<>>],
     circuit |-> Circuit(2, <<Instr("crz", <<Num(Pi)>>, <<1, 2>>, <<>>)>>)],
    RulePool[2]
    >>

\* The library after add_equivalence for the first k rules of TwoPathRules.
RECURSIVE TwoPathLibrary(_)
TwoPathLibrary(k) ==
    IF k = 0 THEN EmptyLibrary
    ELSE AddEquivalence(TwoPathLibrary(k - 1), TwoPathRules[k].gate,
                        TwoPathRules[k].circuit)

\* target_basis arguments: with none of the gates, the estimate grows with
\* the size of the basis; with crz, {h, crz} is popped before {cz, h}.
TwoPathTargets == {{}, {"crz"}, {"u2", "crz"}}

TwoPathSources == {{"swap"}, {"cx"}, {"swap", "cx"}, {"cz", "h"}}

TwoPathInit ==
    /\ equiv_lib = TwoPathLibrary(Len(TwoPathRules))
    /\ self_target_basis \in TwoPathTargets
    /\ Idle

TwoPathNext ==
    \/ \E source \in TwoPathSources : CallBasisSearch(source)
    \/ BasisSearchStep
    \/ BasisSearchNone

\* The planner on the library with two paths.
TwoPathSpec == TwoPathInit /\ [][TwoPathNext]_vars

\* ---------------------------------------------- the library's own calls
\* Rules handed to add_equivalence: the two equivalences of cxy (one key) and h.
AddPool == {1, 6, 2}

\* Keys handed to _get_equivalences: with entries, and without (a name never
\* added, and a name under an arity it was not added under).
GetKeys == {Key("cxy", 2), Key("cxy", 1), Key("h", 1), Key("swap", 2)}

LibrarySources == {{"cxy"}, {"cxy", "h"}, {"h", "swap"}}

\* EquivalenceLibrary(): no entries
LibraryInit ==
    /\ equiv_lib = EmptyLibrary
    /\ self_target_basis = {"cx", "u1"}
    /\ Idle

\* add_equivalence(gate, equivalent_circuit) called with rule k of the pool
AddEquivalenceCall(k) ==
    /\ pc = "idle"
    /\ Len(history) < MaxCalls
    /\ equiv_lib' = AddEquivalence(equiv_lib, RulePool[k].gate, RulePool[k].circuit)
    /\ snapshot' = equiv_lib'
    /\ history' = Append(history,
            [op |-> "add",
             key |-> Key(RulePool[k].gate.name, RulePool[k].gate.num_qubits),
             value |-> [params |-> RulePool[k].gate.params,
                        circuit |-> RulePool[k].circuit]])
    /\ UNCHANGED <<self_target_basis, swapVars, dagVars, searchVars, source_basis, target_basis,
                   pc, basis_transforms, err, runs>>

\* _get_equivalences(key) called, history keeps what it returned
GetEquivalencesCall(key) ==
    /\ pc = "idle"
    /\ Len(history) < MaxCalls
    /\ equiv_lib' = LookedUp(equiv_lib, key)
    /\ snapshot' = equiv_lib'
    /\ history' = Append(history,
            [op |-> "get", key |-> key, value |-> GetEquivalences(equiv_lib, key)])
    /\ UNCHANGED <<self_target_basis, swapVars, dagVars, searchVars, source_basis, target_basis,
                   pc, basis_transforms, err, runs>>

LibraryNext ==
    \/ \E k \in AddPool : AddEquivalenceCall(k)
    \/ \E key \in GetKeys : GetEquivalencesCall(key)
    \/ \E source \in LibrarySources : pc = "idle" /\ CallBasisSearch(source)
    \/ BasisSearchStep
    \/ BasisSearchNone

\* A library filled and read by its caller, then searched by the planner.
LibrarySpec == LibraryInit /\ [][LibraryNext]_vars

\* ------------------------------------------------- ApproximateTokenSwapper
\* An undirected graph: its nodes and its edges, each a set of two nodes.
Graph(nodes, edges) == [nodes |-> nodes, edges |-> edges]

\* graph.neighbors(node)
GraphNeighbors(g, node) == {m \in g.nodes : {node, m} \in g.edges}

\* graph.has_edge(node1, node2)
HasEdge(g, node1, node2) == {node1, node2} \in g.edges /\ node1 # node2

\* The nodes within k edges of the nodes of S, for the least k that holds v;
\* Infinity when no path leads to v.
RECURSIVE DistanceFrom(_, _, _, _)
DistanceFrom(g, S, v, k) ==
    IF v \in S THEN k
    ELSE LET T == S \cup UNION {GraphNeighbors(g, u) : u \in S}
         IN IF T = S THEN Infinity ELSE DistanceFrom(g, T, v, k + 1)

\* distance(node0, node1): the entry of the Floyd-Warshall matrix
Distance(g, node0, node1) == DistanceFrom(g, {node0}, node1, 0)

\* A directed graph of networkx: the nodes it has met, and its edges as pairs.
AddEdges(dg, edges) ==
    [nodes |-> dg.nodes \cup {e[1] : e \in edges} \cup {e[2] : e \in edges},
     edges |-> dg.edges \cup edges]

\* The edges that leave node are not removed.
KeepSuccessorEdges(dg, node) == dg

\* digraph.remove_edges_from([(node, successor) for successor in
\* digraph.successors(node)]): the nodes stay
RemoveSuccessorEdges(dg, node) ==
    [dg EXCEPT !.edges = {e \in @ : e[1] # node}]

\* The edges lead to every node nearer to the destination, a neighbor or not.
EdgesToAnyNearer(g, node, tok) ==
    {<<node, m>> : m \in {m \in g.nodes :
        Distance(g, m, tok[node]) < Distance(g, node, tok[node])}}

\* _add_token_edges, lines 129-132: the edges to the neighbors that are nearer
\* to the destination of the token on node
EdgesToNearerNeighbors(g, node, tok) ==
    {<<node, m>> : m \in {m \in GraphNeighbors(g, node) :
        Distance(g, m, tok[node]) < Distance(g, node, tok[node])}}

\* The self-loop of a token at home is added to sub_digraph as well.
AddTokenEdgesLoopInBoth(g, node, tok, dgs) ==
    IF node \notin DOMAIN tok THEN dgs
    ELSE IF tok[node] = node
    THEN [digraph |-> AddEdges(dgs.digraph, {<<node, node>>}),
          sub_digraph |-> AddEdges(dgs.sub_digraph, {<<node, node>>})]
    ELSE [digraph |-> AddEdges(dgs.digraph, EdgesToNearerNeighbors(g, node, tok)),
          sub_digraph |-> AddEdges(dgs.sub_digraph, EdgesToNearerNeighbors(g, node, tok))]

\* _add_token_edges(node, tokens, digraph, sub_digraph)
AddTokenEdges(g, node, tok, dgs) ==
    IF node \notin DOMAIN tok THEN dgs
    ELSE IF tok[node] = node
    THEN [dgs EXCEPT !.digraph = AddEdges(@, {<<node, node>>})]
    ELSE [digraph |-> AddEdges(dgs.digraph, EdgesToNearerNeighbors(g, node, tok)),
          sub_digraph |-> AddEdges(dgs.sub_digraph, EdgesToNearerNeighbors(g, node, tok))]

\* map, lines 48-49: for node in self.graph.nodes: self._add_token_edges(...)
RECURSIVE AddAllTokenEdges(_, _, _, _)
AddAllTokenEdges(g, nodes, tok, dgs) ==
    IF nodes = {} THEN dgs
    ELSE LET node == CHOOSE n \in nodes : TRUE
         IN AddAllTokenEdges(g, nodes \ {node}, tok, AddTokenEdges(g, node, tok, dgs))

\* map, line 47: the nodes whose token is not on its destination
TodoNodes(tok) == {node \in DOMAIN tok : tok[node] # node}

\* node2 takes the token of node1, and node1 keeps what it holds.
SwapTokensOneWay(tok, node1, node2) ==
    [n \in DOMAIN tok \cup (IF node1 \in DOMAIN tok THEN {node2} ELSE {}) |->
        IF n = node2 /\ node1 \in DOMAIN tok THEN tok[node1] ELSE tok[n]]

\* Only the token of node1 moves; the token of node2 is dropped.
SwapTokensLosing(tok, node1, node2) ==
    [n \in (DOMAIN tok \ {node1, node2})
            \cup (IF node1 \in DOMAIN tok THEN {node2} ELSE {}) |->
        IF n = node2 THEN tok[node1] ELSE tok[n]]

\* _swap, lines 139-144: the tokens of the two nodes change places; a node
\* without token hands over nothing
SwapTokens(tok, node1, node2) ==
    [n \in (DOMAIN tok \ {node1, node2})
            \cup (IF node2 \in DOMAIN tok THEN {node1} ELSE {})
            \cup (IF node1 \in DOMAIN tok THEN {node2} ELSE {}) |->
        IF n = node1 THEN tok[node2] ELSE IF n = node2 THEN tok[node1] ELSE tok[n]]

\* _swap, lines 146-154, for one of the two nodes
Recompute(g, node, st) ==
    LET dgs == AddTokenEdges(g, node, st.tokens,
                   [digraph |-> RemoveSuccessorEdges(st.digraph, node),
                    sub_digraph |-> RemoveSuccessorEdges(st.sub_digraph, node)])
    IN [st EXCEPT !.digraph = dgs.digraph,
                  !.sub_digraph = dgs.sub_digraph,
                  !.todo_nodes = IF node \in DOMAIN st.tokens /\ st.tokens[node] # node
                                 THEN @ \cup {node} ELSE @ \ {node}]

\* _swap(node1, node2, tokens, digraph, sub_digraph, todo_nodes); successors
\* of a node the directed graph has not met raises.
Swap(g, node1, node2, st) ==
    IF ~HasEdge(g, node1, node2)
    THEN [st EXCEPT !.err = "AssertionError"]
    ELSE IF {node1, node2} \subseteq st.digraph.nodes \cap st.sub_digraph.nodes
    THEN CHOOSE r \in {Recompute(g, node2, s1) :
            s1 \in {Recompute(g, node1,
                        [st EXCEPT !.tokens = SwapTokens(@, node1, node2)])}} : TRUE
    ELSE [st EXCEPT !.tokens = SwapTokens(@, node1, node2), !.err = "NetworkXError"]

\* yield edge; swap(edge[0], edge[1]) for the edges of a list, in order
RECURSIVE SwapAll(_, _, _, _)
SwapAll(g, edges, k, st) ==
    IF k > Len(edges) \/ st.err # "none" THEN st
    ELSE SwapAll(g, edges, k + 1,
            CHOOSE r \in {Swap(g, edges[k][1], edges[k][2],
                               [st EXCEPT !.swaps = Append(@, edges[k])])} : TRUE)

\* The nodes a walk along the edges of dg reaches from node.
RECURSIVE ReachableFrom(_, _)
ReachableFrom(dg, S) ==
    LET T == S \cup {e[2] : e \in {e \in dg.edges : e[1] \in S}}
    IN IF T = S THEN S ELSE ReachableFrom(dg, T)

\* The cycles nx.find_cycle(dg, source) can return: the edges, in order, of a
\* cycle of dg among the nodes reached from source, begun at any of its nodes.
Cycles(dg, source) ==
    LET R == ReachableFrom(dg, {source})
    IN {[k \in 1..Len(ns) |-> <<ns[k], ns[(k % Len(ns)) + 1]>>] :
          ns \in {ns \in UNION {[1..n -> R] : n \in 1..Cardinality(R)} :
                    /\ \A j, k \in 1..Len(ns) : ns[j] = ns[k] => j = k
                    /\ \A k \in 1..Len(ns) : <<ns[k], ns[(k % Len(ns)) + 1]>> \in dg.edges}}

\* cycle[-1:0:-1]: the edges of the cycle from the last back to the second
ReversedButFirst(cycle) == [k \in 1..(Len(cycle) - 1) |-> cycle[Len(cycle) + 1 - k]]

\* The edges nx.dfs_edges(sub_digraph, todo_node) can give first among those
\* that end on a node without token.
EdgesToFreeNode(dg, todo_node, tok) ==
    {e \in dg.edges : e[1] \in ReachableFrom(dg, {todo_node}) /\ e[2] \notin DOMAIN tok}

TrialState ==
    [tokens |-> tokens, digraph |-> digraph, sub_digraph |-> sub_digraph,
     todo_nodes |-> todo_nodes, swaps |-> swaps, err |-> "none"]

\* The state of the swapper after an iteration that made n swaps.
AfterIteration(st, n) ==
    /\ tokens' = st.tokens
    /\ digraph' = st.digraph
    /\ sub_digraph' = st.sub_digraph
    /\ todo_nodes' = st.todo_nodes
    /\ swaps' = st.swaps
    /\ steps' = IF st.err = "none" THEN steps + n ELSE steps
    /\ swap_pc' = IF st.err = "none" THEN "trial" ELSE st.err
    /\ UNCHANGED <<graph, mapping, trials, trial_results, swap_rtn, translatorVars>>

\* while todo_nodes and steps <= 4 * len(self.graph.nodes) ** 2
InLoop ==
    /\ swap_pc = "trial"
    /\ todo_nodes # {}
    /\ steps <= 4 * Cardinality(graph.nodes) * Cardinality(graph.nodes)

\* The copies a trial starts on: digraph.copy(), sub_digraph.copy(),
\* todo_nodes.copy(), tokens.copy() of what map built of the mapping.
BeginTrial ==
    \E dgs \in {AddAllTokenEdges(graph', graph'.nodes, mapping',
                                 [digraph |-> NoGraph, sub_digraph |-> NoGraph])} :
        /\ tokens' = mapping'
        /\ digraph' = dgs.digraph
        /\ sub_digraph' = dgs.sub_digraph
        /\ todo_nodes' = TodoNodes(mapping')
        /\ steps' = 0
        /\ swaps' = <<>>

\* map(mapping, trials), lines 42-54, up to the first iteration of the first trial
Map(g, m, t) ==
    /\ swap_pc = "idle" /\ pc = "idle"
    /\ graph' = g /\ mapping' = m /\ trials' = t
    /\ BeginTrial
    /\ trial_results' = <<>>
    /\ swap_pc' = "trial"
    /\ UNCHANGED <<swap_rtn, translatorVars>>

\* _trial_map, lines 87-96: a cycle of sub_digraph is found from todo_node and
\* its edges but the first are swapped, from the last on. find_cycle raises
\* when todo_node is no node of sub_digraph.
HappySwapChain ==
    /\ InLoop
    /\ \E todo_node \in todo_nodes :
          IF todo_node \notin sub_digraph.nodes
          THEN AfterIteration([TrialState EXCEPT !.err = "NetworkXError"], 0)
          ELSE \E cycle \in Cycles(sub_digraph, todo_node) :
                  IF Len(cycle) > 1
                  THEN \E st \in {SwapAll(graph, ReversedButFirst(cycle), 1, TrialState)} :
                          AfterIteration(st, Len(cycle) - 1)
                  ELSE AfterIteration([TrialState EXCEPT !.err = "AssertionError"], 0)

\* _trial_map, lines 97-104: no cycle; an edge that ends on a node without
\* token is swapped
EmptyNodeSwap ==
    /\ InLoop
    /\ \E todo_node \in todo_nodes :
          /\ todo_node \in sub_digraph.nodes
          /\ Cycles(sub_digraph, todo_node) = {}
          /\ \E edge \in EdgesToFreeNode(sub_digraph, todo_node, tokens) :
             \E st \in {SwapAll(graph, <<edge>>, 1, TrialState)} :
                AfterIteration(st, 1)

\* _trial_map, lines 105-116: the unhappy swap. The cycle found in digraph is
\* a self-loop; its node is swapped with a predecessor that is not itself.
UnhappySwap ==
    /\ InLoop
    /\ \E todo_node \in todo_nodes :
          /\ todo_node \in sub_digraph.nodes
          /\ Cycles(sub_digraph, todo_node) = {}
          /\ EdgesToFreeNode(sub_digraph, todo_node, tokens) = {}
          /\ IF todo_node \notin digraph.nodes
             THEN AfterIteration([TrialState EXCEPT !.err = "NetworkXError"], 0)
             ELSE IF Cycles(digraph, todo_node) = {}
             THEN AfterIteration([TrialState EXCEPT !.err = "NetworkXNoCycle"], 0)
             ELSE \E cycle \in Cycles(digraph, todo_node) :
                  IF Len(cycle) # 1
                  THEN AfterIteration([TrialState EXCEPT !.err = "AssertionError"], 0)
                  ELSE LET unhappy_node == cycle[1][1]
                           predecessors == {e[1] : e \in {e \in digraph.edges :
                                              e[2] = unhappy_node /\ e[1] # unhappy_node}}
                       IN IF predecessors = {}
                          THEN AfterIteration([TrialState EXCEPT !.err = "RuntimeError"], 0)
                          ELSE \E predecessor \in predecessors :
                               \E st \in {SwapAll(graph, <<<<unhappy_node, predecessor>>>>,
                                                  1, TrialState)} :
                                  AfterIteration(st, 1)

\* min(trial_results, key=len): the first of the shortest lists
FirstShortest(results) ==
    results[CHOOSE k \in 1..Len(results) :
        /\ \A j \in 1..Len(results) : Len(results[k]) <= Len(results[j])
        /\ \A j \in 1..(k - 1) : Len(results[j]) > Len(results[k])]

\* _trial_map, lines 79 and 117-118, and map, lines 50-68: the loop of a
\* trial is left. With nodes to do it raises; else the list of the trial is
\* kept, and map returns once a list is empty or the trials are used up.
TrialEnds ==
    /\ swap_pc = "trial"
    /\ ~InLoop
    /\ IF todo_nodes # {}
       THEN /\ swap_pc' = "RuntimeError"
            /\ UNCHANGED <<graph, mapping, trials, tokens, digraph, sub_digraph,
                           todo_nodes, steps, swaps, trial_results, swap_rtn>>
       ELSE /\ trial_results' = Append(trial_results, swaps)
            /\ UNCHANGED <<graph, mapping, trials>>
            /\ IF swaps = <<>> \/ Len(trial_results') = trials
               THEN /\ swap_rtn' = FirstShortest(trial_results')
                    /\ swap_pc' = "returned"
                    /\ UNCHANGED <<tokens, digraph, sub_digraph, todo_nodes, steps, swaps>>
               ELSE /\ BeginTrial
                    /\ UNCHANGED <<swap_pc, swap_rtn>>
    /\ UNCHANGED translatorVars

\* Architecture graphs of 3 nodes: the path of test_compile_swap_needed, the
\* triangle, and a graph in two parts.
SwapGraphs == {
    Graph(1..3, {{1, 2}, {2, 3}}),
    Graph(1..3, {{1, 2}, {2, 3}, {3, 1}}),
    Graph(1..3, {{1, 2}})}

Ring == Graph(1..4, {{1, 2}, {2, 3}, {3, 4}, {4, 1}})

\* mapping: node -> destination for some of the nodes, no destination twice
SwapMappings(g) ==
    {m \in UNION {[D -> g.nodes] : D \in SUBSET g.nodes} :
        \A a, b \in DOMAIN m : m[a] = m[b] => a = b}

\* Mappings on the ring of 4 nodes: every token one node on, two tokens
\* across with the others at home, two pairs of neighbors changing places,
\* three tokens in a round with the fourth at home,
\* one token across past a token at home, and three tokens around a node
\* without token.
RingMappings == {
    (1 :> 2) @@ (2 :> 3) @@ (3 :> 4) @@ (4 :> 1),
    (1 :> 3) @@ (3 :> 1) @@ (2 :> 2) @@ (4 :> 4),
    (1 :> 2) @@ (2 :> 1) @@ (3 :> 4) @@ (4 :> 3),
    (1 :> 2) @@ (2 :> 3) @@ (3 :> 1) @@ (4 :> 4),
    (1 :> 3) @@ (2 :> 2),
    (1 :> 2) @@ (2 :> 4) @@ (4 :> 1)}

\* The graphs and mappings handed to the swapper.
SwapInputs ==
    {[graph |-> g, mapping |-> m] : g \in SwapGraphs, m \in SwapMappings(Graph(1..3, {}))}
    \cup {[graph |-> Ring, mapping |-> m] : m \in RingMappings}

\* ApproximateTokenSwapper(graph)
SwapInit ==
    /\ equiv_lib = EmptyLibrary
    /\ self_target_basis = {}
    /\ Idle

SwapNext ==
    \/ \E in \in SwapInputs : \E t \in 1..MaxTrials : Map(in.graph, in.mapping, t)
    \/ HappySwapChain
    \/ EmptyNodeSwap
    \/ UnhappySwap
    \/ TrialEnds

SwapSpec == SwapInit /\ [][SwapNext]_vars

\* ------------------------------------------------ SynthesizeUnitaries
\* has_entry reports an entry under no key.
HasEntryNever(lib, op) == FALSE

\* EquivalenceLibrary.has_entry(gate): the library holds an entry under the
\* key (name, num_qubits) of the gate
HasEntry(lib, op) == Key(op.name, Len(op.qargs)) \in DOMAIN lib

NoDefinition == [kind |-> "None", num_qubits |-> 0, data |-> <<>>]
Rule(num_qubits, data) == [kind |-> "rule", num_qubits |-> num_qubits, data |-> data]

\* node.op.definition of the gates of the inputs: a list of instructions over
\* a register of the width of the gate, an empty list, None (a gate that
\* defines nothing), or a TypeError raised while the definition is built.
Definition(op) ==
    CASE op.name = "unitary" -> Rule(1, <<Instr("u3", <<Num(Pi), Num(0), Num(Pi)>>, <<1>>, <<>>)>>)
      [] op.name = "h"  -> Rule(1, <<Instr("u2", <<Num(0), Num(Pi)>>, <<1>>, <<>>)>>)
      [] op.name = "u2" -> Rule(1, <<Instr("u3", <<Num(Pi \div 2)>> \o op.params, <<1>>, <<>>)>>)
      [] op.name = "swap" -> Rule(2, <<Op("cx", <<1, 2>>), Op("cx", <<2, 1>>), Op("cx", <<1, 2>>)>>)
      [] op.name = "cz" -> Rule(2, <<Op("h", <<2>>), Op("cx", <<1, 2>>), Op("h", <<2>>)>>)
      [] op.name = "marked" -> Rule(2, <<Op("h", <<1>>), Op("barrier", <<1, 2>>), Op("cx", <<2, 1>>)>>)
      [] op.name = "wrapped" -> Rule(1, <<Op("opaque", <<1>>)>>)
      [] op.name = "empty" -> Rule(Len(op.qargs), <<>>)
      [] op.name = "unbound" -> [NoDefinition EXCEPT !.kind = "TypeError"]
      [] OTHER -> NoDefinition

\* not rule: the definition is None or an empty list
NotRule(rule) == rule.kind = "None" \/ (rule.kind = "rule" /\ rule.data = <<>>)

UnrollFailed == [ok |-> FALSE, nodes |-> <<>>]

\* Unroller(basis).run(dag) on the nodes of a DAG: a node of basic_instrs or of
\* the basis is kept, a node with an empty definition is removed, a node with
\* a definition is replaced by the unrolling of it, and a node with none
\* raises.
RECURSIVE Unroll(_, _)
RECURSIVE UnrollOneLevel(_, _)
\* One pass only: the definition of a node is put in its place as it is.
UnrollOneLevel(basis, nodes) ==
    IF nodes = <<>> THEN [ok |-> TRUE, nodes |-> <<>>]
    ELSE LET node == Head(nodes)
             rule == Definition(node)
             rest == UnrollOneLevel(basis, Tail(nodes))
         IN IF ~rest.ok THEN UnrollFailed
            ELSE IF node.name \in basic_instrs \cup basis
            THEN [rest EXCEPT !.nodes = <<node>> \o @]
            ELSE IF rule.kind # "rule" THEN UnrollFailed
            ELSE [rest EXCEPT !.nodes = Rewire(node, Dag(rule.num_qubits, rule.data)) \o @]

Unroll(basis, nodes) ==
    IF nodes = <<>> THEN [ok |-> TRUE, nodes |-> <<>>]
    ELSE LET node == Head(nodes)
             rule == Definition(node)
             rest == Unroll(basis, Tail(nodes))
         IN IF ~rest.ok THEN UnrollFailed
            ELSE IF node.name \in basic_instrs \cup basis
            THEN [rest EXCEPT !.nodes = <<node>> \o @]
            ELSE IF rule.kind # "rule" THEN UnrollFailed
            ELSE LET sub == Unroll(basis, rule.data)
                 IN IF ~sub.ok THEN UnrollFailed
                    ELSE [rest EXCEPT
                            !.nodes = Rewire(node, Dag(rule.num_qubits, sub.nodes)) \o @]

SynthesisNodePool == {
    Instr("unitary", <<>>, <<1>>, <<>>),
    Op("h", <<2>>),
    Op("swap", <<2, 1>>),
    Op("cz", <<1, 2>>),
    Op("marked", <<1, 2>>),
    Op("opaque", <<1>>),
    Op("empty", <<2>>),
    Op("wrapped", <<1>>),
    Op("unbound", <<2>>)}

SynthesisDags ==
    {d \in UNION {[1..n -> SynthesisNodePool] : n \in 0..MaxNodes} :
        \A j, k \in 1..Len(d) : d[j] = d[k] => j = k}

\* SynthesizeUnitaries(equivalence_library)
SynthesisInit ==
    /\ equiv_lib \in {EmptyLibrary, LibraryOf({2}), LibraryOf({2, 4})}
    /\ self_target_basis = {}
    /\ Idle

\* SynthesizeUnitaries.run(dag) is called
SynthesizeRun(d) ==
    /\ pc = "idle"
    /\ dag' = d /\ dag0' = d
    /\ segs' = <<>> /\ node_i' = 0
    /\ pc' = IF Len(d) = 0 THEN "done" ELSE "synthesize"
    /\ runs' = 1
    /\ UNCHANGED <<libVars, swapVars, err, history, source_basis, target_basis, searchVars,
                   basis_transforms, instr_map, composed, plan_i>>

\* SynthesizeUnitaries.run, lines 33-58: the body of the loop for the next
\* node of dag.op_nodes()
SynthesizeNode ==
    /\ pc = "synthesize"
    /\ LET node == dag[Cursor]
           done == IF node_i + 1 = Len(dag0) THEN "done" ELSE "synthesize"
           rule == Definition(node)
       IN IF HasEntry(equiv_lib, node)
          THEN /\ segs' = Append(segs, <<node>>)
               /\ node_i' = node_i + 1
               /\ pc' = done
               /\ UNCHANGED <<dag, err>>
          ELSE IF rule.kind = "TypeError"
          THEN /\ pc' = "error"
               /\ err' = [NoError EXCEPT !.kind = "QiskitError"]
               /\ UNCHANGED <<dag, segs, node_i>>
          ELSE IF NotRule(rule)
          THEN /\ segs' = Append(segs, <<node>>)
               /\ node_i' = node_i + 1
               /\ pc' = done
               /\ UNCHANGED <<dag, err>>
          ELSE \E unrolled \in {Unroll({"u3", "cx"}, rule.data)} :
                  IF unrolled.ok
                  THEN \E nodes \in {Rewire(node, Dag(rule.num_qubits, unrolled.nodes))} :
                          /\ dag' = Replaced(dag, Cursor, nodes)
                          /\ segs' = Append(segs, nodes)
                          /\ node_i' = node_i + 1
                          /\ pc' = done
                          /\ err' = err
                  ELSE /\ pc' = "error"
                       /\ err' = [NoError EXCEPT !.kind = "QiskitError"]
                       /\ UNCHANGED <<dag, segs, node_i>>
    /\ UNCHANGED <<libVars, swapVars, dag0, history, source_basis, target_basis, searchVars,
                   basis_transforms, instr_map, composed, plan_i, runs>>

SynthesisNext ==
    \/ \E d \in SynthesisDags : SynthesizeRun(d)
    \/ SynthesizeNode

SynthesisSpec == SynthesisInit /\ [][SynthesisNext]_vars

\* set_entry(name, arity, equivalences, search_base) for every key of K, with
\* the equivalences the key has and search_base false.
SetEntries(lib, K) ==
    [key \in DOMAIN lib |->
        IF key \in K THEN [lib[key] EXCEPT !.search_base = FALSE] ELSE lib[key]]

\* Libraries some of whose entries have search_base false.
EntryInit ==
    /\ equiv_lib \in UNION {{SetEntries(LibraryOf(S), K) : K \in SUBSET DOMAIN LibraryOf(S)} :
                             S \in TerminationRuleSets}
    /\ self_target_basis \in TargetChoices
    /\ Idle

\* The planner on libraries with entries of either search_base flag.
EntrySpec == EntryInit /\ [][TerminationNext]_vars

\* Another thread calls add_equivalence with a rule of the pool while
\* _basis_search is in its loop; one such call during a run.
AddEquivalenceDuringSearch(k) ==
    /\ pc = "search"
    /\ equiv_lib = snapshot
    /\ equiv_lib' = AddEquivalence(equiv_lib, RulePool[k].gate, RulePool[k].circuit)
    /\ UNCHANGED <<snapshot, self_target_basis, swapVars, dagVars, searchVars, source_basis,
                   target_basis, pc, basis_transforms, err, runs, history>>

ConcurrentInit ==
    /\ equiv_lib \in {LibraryOf(S) : S \in RunRuleSets}
    /\ self_target_basis \in TargetChoices
    /\ Idle

ConcurrentNext ==
    \/ \E source \in SourceBases : pc = "idle" /\ CallBasisSearch(source)
    \/ \E k \in 1..Len(RulePool) : AddEquivalenceDuringSearch(k)
    \/ BasisSearchStep
    \/ BasisSearchNone

\* The planner with a mutator of the library at work beside it.
ConcurrentSpec == ConcurrentInit /\ [][ConcurrentNext]_vars

\* ================================================================ claims
Names(nodes) == {nodes[k].name : k \in 1..Len(nodes)}

\* dag is the segments of the visited nodes followed by the unvisited nodes.
SegsAreDag == dag = Flatten(segs) \o SubSeq(dag0, Len(segs) + 1, Len(dag0))

\* C1: when run returns without raising, the name of every op node of the
\* returned DAG is in target_basis \cup {measure, reset, barrier, snapshot}.
C1_OutputInTarget ==
    pc = "done" => Names(dag) \subseteq (self_target_basis \cup basic_instrs)

\* A run that returned a DAG rewritten by a plan of two transforms.
C1_Witness ==
    /\ pc = "done"
    /\ dag # dag0
    /\ Len(basis_transforms.rtn) >= 2
    /\ Len(dag) > Len(dag0)

\* The library holds (params, equiv) as an equivalence of gate_name.
Holds(lib, t) ==
    \E key \in DOMAIN lib :
        /\ key[1] = t.gate_name
        /\ \E j \in 1..Len(lib[key].equivalences) :
              lib[key].equivalences[j] = [params |-> t.params, circuit |-> t.equiv]

\* B_0 = B, B_i = (B_{i-1} \ {g_i}) \cup names(t_i): every g_i is in B_{i-1},
\* every transform is held by the library, and the last basis is in target.
RECURSIVE FoldsToTarget(_, _, _, _, _)
FoldsToTarget(B, rtn, k, lib, target) ==
    IF k > Len(rtn) THEN B \subseteq target
    ELSE /\ rtn[k].gate_name \in B
         /\ Holds(lib, rtn[k])
         /\ FoldsToTarget((B \ {rtn[k].gate_name}) \cup CountOps(rtn[k].equiv),
                          rtn, k + 1, lib, target)

\* C2: a plan returned by _basis_search folds source_basis into a subset of
\* target_basis, each transform rewriting a name of the basis before it and
\* being an equivalence the library holds for that name.
C2_PlanFolds ==
    (pc = "searched" /\ basis_transforms.found)
        => FoldsToTarget(source_basis, basis_transforms.rtn, 1, equiv_lib, target_basis)

\* The planner returned a plan of two transforms or more.
C2_Witness ==
    pc = "searched" /\ basis_transforms.found /\ Len(basis_transforms.rtn) >= 2

\* The bases one rewrite away from B, over every equivalence of the library.
LibraryEdges(lib, B) ==
    UNION {{(B \ {key[1]}) \cup CountOps(lib[key].equivalences[j].circuit) :
                j \in 1..Len(lib[key].equivalences)} :
           key \in {q \in DOMAIN lib : q[1] \in B}}

RECURSIVE ReachableBases(_, _, _)
ReachableBases(lib, seen, frontier) ==
    IF frontier = {} THEN seen
    ELSE LET new == UNION {LibraryEdges(lib, B) : B \in frontier} \ seen
         IN ReachableBases(lib, seen \cup new, new)

GoalReachable(lib, source, target) ==
    \E B \in ReachableBases(lib, {source}, {source}) : B \subseteq target

\* C3: _basis_search returns None if and only if no basis within target_basis
\* is reachable from source_basis through the equivalences of the library.
C3_NoneIffUnreachable ==
    pc = "searched"
        => (basis_transforms.found <=> GoalReachable(equiv_lib, source_basis, target_basis))

\* C4: when run raises, the DAG it was handed is exactly the original.
C4_ErrorLeavesDag == pc = "error" => dag = dag0

\* C5: when the planner returns None, run raises an error that carries the
\* source basis and the target basis with the basic instructions, before the
\* composer or the applier has done anything; the DAG is unchanged.
C5_UnableToMap ==
    /\ (pc = "error" /\ err.kind = "TranspilerError")
          => /\ ~basis_transforms.found
             /\ err.source = Names(dag0)
             /\ err.target = self_target_basis \cup basic_instrs
             /\ instr_map = EmptyMap /\ plan_i = 0
             /\ segs = <<>> /\ node_i = 0
             /\ dag = dag0
    /\ pc \in {"compose", "apply", "done"} => basis_transforms.found
    /\ (pc = "error" /\ ~basis_transforms.found) => err.kind = "TranspilerError"

\* run raised for a DAG that holds a gate the library cannot rewrite.
C5_Witness ==
    /\ pc = "error"
    /\ err.kind = "TranspilerError"
    /\ "cxy" \in err.source
    /\ Cardinality(closed_set) >= 2

\* C6: two executions of _basis_search on the same library, source basis and
\* target basis return the same plan.
C6_SamePlan ==
    pc = "searched" => \A k \in 1..Len(history) : history[k] = basis_transforms

\* C7: _basis_search terminates, returning a plan or None.
C7_Terminates == (pc = "search") ~> (pc = "searched")

\* The planner went round a cycle of the library, closed three bases and
\* returned None.
C7_Witness ==
    pc = "searched" /\ ~basis_transforms.found /\ Cardinality(closed_set) >= 3

\* fp[i] replaced by ap[i] in one parameter, all i at once.
Replaced1(e, fp, ap) ==
    IF \E k \in 1..Len(fp) : Mentions(e, fp[k])
    THEN LET k == CHOOSE j \in 1..Len(fp) : Mentions(e, fp[j])
         IN IF ap[k].c = 0
            THEN Num(e.c * ap[k].n + e.n)
            ELSE [vec |-> ap[k].vec, i |-> ap[k].i,
                  c |-> e.c * ap[k].c, n |-> e.c * ap[k].n + e.n]
    ELSE e

\* The operations (name, parameters) of nodes.
Ops(nodes) == [k \in 1..Len(nodes) |-> <<nodes[k].name, nodes[k].params>>]

\* The operations of the replacement with fp[i] replaced by ap[i].
ReplacedOps(replacement, ap) ==
    [k \in 1..Len(replacement.dag.nodes) |->
        <<replacement.dag.nodes[k].name,
          [j \in 1..Len(replacement.dag.nodes[k].params) |->
              Replaced1(replacement.dag.nodes[k].params[j], replacement.params, ap)]>>]

\* C8: the nodes substituted for a rewritten op node with parameters ap are
\* the operations of its replacement (fp, dag) with fp[i] replaced by ap[i],
\* for each node on its own.
C8_BoundReplacement ==
    /\ SegsAreDag
    /\ \A k \in 1..Len(segs) :
          dag0[k].name \notin target_basis
             => Ops(segs[k]) = ReplacedOps(composed[dag0[k].name], dag0[k].params)

\* Two nodes named cxy, one with the number 5 and one with the parameter a,
\* have both been rewritten.
C8_Witness ==
    /\ pc = "done"
    /\ \E j, k \in 1..Len(segs) :
          /\ dag0[j].name = "cxy" /\ dag0[j].params = <<Num(5)>>
          /\ dag0[k].name = "cxy" /\ dag0[k].params = <<Par("a", 0)>>
          /\ \E n \in 1..Len(segs[j]) : segs[j][n].params = <<Num(5)>>
          /\ \E n \in 1..Len(segs[k]) : segs[k][n].params = <<Par("a", 0)>>

\* C9: run leaves every op node whose name is in the target set as it is,
\* also when the plan holds a transform for that name.
C9_TargetNodesKept ==
    /\ SegsAreDag
    /\ \A k \in 1..Len(segs) :
          dag0[k].name \in (self_target_basis \cup basic_instrs) => segs[k] = <<dag0[k]>>
    /\ (pc = "done" /\ Names(dag0) \subseteq (self_target_basis \cup basic_instrs))
          => dag = dag0

\* run returned, the plan held a transform for a target name, and the input
\* held a node of that name.
C9_Witness ==
    /\ pc = "done"
    /\ \E k \in 1..Len(dag0) : \E j \in 1..Len(basis_transforms.rtn) :
          /\ dag0[k].name \in target_basis
          /\ basis_transforms.rtn[j].gate_name = dag0[k].name

\* C10: no step of run changes the equivalence library.
C10_LibraryUnchanged == [][equiv_lib' = equiv_lib]_vars

\* run returned after it composed a transform with a formal parameter.
C10_Witness ==
    /\ pc = "done"
    /\ dag # dag0
    /\ \E j \in 1..Len(basis_transforms.rtn) : basis_transforms.rtn[j].params # <<>>

\* C11: every equivalence the planner has read during a run, and so every
\* transform of the plan it returns, is an equivalence of the library as it
\* was when the run began.
C11_OneSnapshot ==
    /\ \A b \in DOMAIN came_from : Holds(snapshot, came_from[b])
    /\ (pc = "searched" /\ basis_transforms.found)
          => \A j \in 1..Len(basis_transforms.rtn) :
                Holds(snapshot, basis_transforms.rtn[j])

\* C12: the mapping _compose_transforms returns has exactly the names of
\* source_basis as its keys, and every op node of every replacement DAG of
\* it has a name of the target basis.
C12_ComposedOverTarget ==
    pc \in {"apply", "done"}
        => /\ DOMAIN composed = source_basis
           /\ \A g \in DOMAIN composed :
                 Names(composed[g].dag.nodes) \subseteq target_basis

\* The composer returned a mapping of two names after a plan of two
\* transforms, the second of which rewrote the replacement of the first.
C12_Witness ==
    /\ pc \in {"apply", "done"}
    /\ Cardinality(DOMAIN composed) >= 2
    /\ Len(basis_transforms.rtn) >= 2
    /\ \E g \in DOMAIN composed : Len(composed[g].dag.nodes) > 3

\* The transform the composer is about to apply meets, in a mapped DAG, a
\* node of its gate name whose parameter list is not as long as its formal
\* parameters.
ComposerMismatch ==
    /\ pc = "compose"
    /\ \E name \in DOMAIN instr_map :
       \E k \in 1..Len(instr_map[name].dag.nodes) :
          /\ instr_map[name].dag.nodes[k].name = basis_transforms.rtn[plan_i + 1].gate_name
          /\ Len(instr_map[name].dag.nodes[k].params)
                # Len(basis_transforms.rtn[plan_i + 1].params)

\* C13: when the composer applies a rule (g, fp, tmpl) to a node named g
\* whose parameter list differs in length from fp, the composition fails.
C13_ComposerRaises == [][ComposerMismatch => pc' = "error"]_vars

\* The node the applier is about to visit is outside the target basis and
\* has not as many parameters as its replacement has formal parameters.
ApplierMismatch ==
    /\ pc = "apply"
    /\ dag[Cursor].name \notin target_basis
    /\ dag[Cursor].name \in DOMAIN instr_map
    /\ Len(dag[Cursor].params) # Len(instr_map[dag[Cursor].name].params)

\* C14: for such a node run raises the parameter-count-mismatch error (the
\* RuntimeError of line 93) and the node is not substituted.
C14_ApplierRaises ==
    [][ApplierMismatch
          => (pc' = "error" /\ err'.kind = "RuntimeError" /\ dag' = dag)]_vars

\* The transform t is an equivalence of an entry whose search_base is false.
FromNonBaseEntry(lib, t) ==
    \E key \in DOMAIN lib :
        /\ key[1] = t.gate_name
        /\ ~lib[key].search_base
        /\ \E j \in 1..Len(lib[key].equivalences) :
              lib[key].equivalences[j] = [params |-> t.params, circuit |-> t.equiv]

\* C15: an equivalence of an entry whose search_base flag is false gives the
\* search no neighbor and is no transform of a plan _basis_search returns.
C15_NoHopFromNonBase ==
    /\ \A b \in DOMAIN came_from : ~FromNonBaseEntry(equiv_lib, came_from[b])
    /\ (pc = "searched" /\ basis_transforms.found)
          => \A j \in 1..Len(basis_transforms.rtn) :
                ~FromNonBaseEntry(equiv_lib, basis_transforms.rtn[j])

\* How many of the nodes are named n.
Count(nodes, n) == Cardinality({k \in 1..Len(nodes) : nodes[k].name = n})

\* C16: when the plan is the single rule g -> tmpl, an equivalence of the
\* translator's own library, and g is not in the target, the output has of
\* every name n as many nodes as the input has apart from g, plus, for each
\* input node named g, as many as tmpl has.
C16_Counts ==
    (pc = "done" /\ Len(basis_transforms.rtn) = 1
                 /\ basis_transforms.rtn[1].gate_name \notin target_basis)
        => /\ Holds(equiv_lib, basis_transforms.rtn[1])
           /\ \A n \in Names(dag) \cup Names(dag0) \cup Names(basis_transforms.rtn[1].equiv.data) :
                 Count(dag, n) =
                    (IF n = basis_transforms.rtn[1].gate_name THEN 0 ELSE Count(dag0, n))
                    + Count(dag0, basis_transforms.rtn[1].gate_name)
                         * Count(basis_transforms.rtn[1].equiv.data, n)

\* Two nodes named cxy were rewritten over the cz-based equivalence of the
\* library: the output has four cz nodes and two u1 nodes.
C16_Witness ==
    /\ pc = "done"
    /\ Len(basis_transforms.rtn) = 1
    /\ Count(dag0, "cxy") = 2
    /\ Count(dag, "cz") = 4 /\ Count(dag, "u1") = 2 /\ Count(dag, "cxy") = 0

\* The nodes the claim puts in the place of node, for the replacement repl
\* of its name: one node on the wires of node when repl is one operation on
\* as many qubits, else every node of repl with its wire i read as wire i
\* of node.
ExpectedNodes(node, repl) ==
    IF /\ Len(repl.dag.nodes) = 1
       /\ Len(repl.dag.nodes[1].qargs) = Len(node.qargs)
    THEN <<[name |-> ReplacedOps(repl, node.params)[1][1],
            params |-> ReplacedOps(repl, node.params)[1][2],
            qargs |-> node.qargs, cargs |-> node.cargs]>>
    ELSE [i \in 1..Len(repl.dag.nodes) |->
            [name |-> ReplacedOps(repl, node.params)[i][1],
             params |-> ReplacedOps(repl, node.params)[i][2],
             qargs |-> [j \in 1..Len(repl.dag.nodes[i].qargs) |->
                           node.qargs[repl.dag.nodes[i].qargs[j]]],
             cargs |-> [j \in 1..Len(repl.dag.nodes[i].cargs) |->
                           node.cargs[repl.dag.nodes[i].cargs[j]]]]]

\* C17: a rewritten node whose bound replacement is one op node on as many
\* qubits becomes that operation on the node's own wires; any other rewritten
\* node becomes the whole replacement, wired by position.  A Hadamard on one
\* qubit with target {u2} gives the single node u2(0, pi).
C17_SingleOpInPlace ==
    /\ SegsAreDag
    /\ \A k \in 1..Len(segs) :
          dag0[k].name \notin target_basis
             => segs[k] = ExpectedNodes(dag0[k], composed[dag0[k].name])
    /\ (pc = "done" /\ self_target_basis = {"u2"}
                    /\ dag0 = <<Instr("h", <<>>, <<1>>, <<>>)>>)
          => dag = <<Instr("u2", <<Num(0), Num(Pi)>>, <<1>>, <<>>)>>

\* run returned after it replaced h on the second qubit by one u2 there, ih
\* by one u2 on the second wire of ih, and swap by its three cx.
C17_Witness ==
    /\ pc = "done"
    /\ \E i, j, k \in 1..Len(segs) :
          /\ dag0[i] = Instr("h", <<>>, <<2>>, <<>>)
          /\ segs[i] = <<Instr("u2", <<Num(0), Num(Pi)>>, <<2>>, <<>>)>>
          /\ dag0[j].name = "ih"
          /\ segs[j] = <<Instr("u2", <<Num(0), Num(Pi)>>, <<1>>, <<>>)>>
          /\ dag0[k].name = "swap"
          /\ Len(segs[k]) = 3

\* C18: with the library seeded from returnStandardRules, a DAG of one ccx
\* node and target {h, cx, t, tdg}: the planner finds a plan, run raises
\* nothing, and the DAG returned has only names of the target and 6 cx nodes.
C18_Toffoli ==
    (Len(dag0) = 1 /\ dag0[1].name = "ccx" /\ self_target_basis = {"h", "cx", "t", "tdg"})
        => /\ pc # "error"
           /\ pc = "searched" => basis_transforms.found
           /\ pc = "done" => /\ Names(dag) \subseteq {"h", "cx", "t", "tdg"}
                             /\ Count(dag, "cx") = 6

\* run returned the translation of one ccx node on the qubits (3, 1, 2).
C18_Witness ==
    /\ pc = "done"
    /\ dag0 = <<Op("ccx", <<3, 1, 2>>)>>
    /\ self_target_basis = {"h", "cx", "t", "tdg"}
    /\ Len(dag) = 15
    /\ dag[1] = Op("h", <<3>>)

\* The library of the pass holds an entry under the key of the gate.
InLibrary(op) == Key(op.name, Len(op.qargs)) \in DOMAIN equiv_lib

\* The node has no library entry and its definition is None or empty.
Undefined(op) == ~InLibrary(op) /\ NotRule(Definition(op))

\* C19: SynthesizeUnitaries.run leaves every node with a library entry, and
\* every node with no entry and an empty or absent definition, as it was, and
\* raises for none of them.
C19_NodesLeft ==
    pc \in {"synthesize", "done", "error"} =>
        /\ SegsAreDag
        /\ \A k \in 1..Len(segs) :
              (InLibrary(dag0[k]) \/ Undefined(dag0[k])) => segs[k] = <<dag0[k]>>
        /\ pc = "error" =>
              ~(InLibrary(dag0[Len(segs) + 1]) \/ Undefined(dag0[Len(segs) + 1]))

\* run returned a DAG that kept a node with an entry and a definition (h) and
\* a node with neither (opaque), next to a node it replaced.
C19_Witness ==
    /\ pc = "done"
    /\ Len(dag0) = 3
    /\ dag0[1].name = "opaque" /\ dag0[2].name = "swap" /\ dag0[3].name = "h"
    /\ InLibrary(dag0[3]) /\ ~InLibrary(dag0[2])
    /\ dag = <<dag0[1], Op("cx", <<2, 1>>), Op("cx", <<1, 2>>), Op("cx", <<2, 1>>), dag0[3]>>

\* C20: in the DAG SynthesizeUnitaries.run returns every node has a library
\* entry, or a definition that is empty or absent, or the name u3 or cx, and a
\* node with no entry and a non-empty definition has been replaced by the
\* unrolling of its definition over {u3, cx}.
C20_Synthesized ==
    pc = "done" =>
        /\ SegsAreDag
        /\ \A k \in 1..Len(dag) :
              \/ InLibrary(dag[k])
              \/ NotRule(Definition(dag[k]))
              \/ dag[k].name \in {"u3", "cx"}
        /\ \A k \in 1..Len(dag0) :
              (~InLibrary(dag0[k]) /\ ~NotRule(Definition(dag0[k])))
                  => /\ Unroll({"u3", "cx"}, Definition(dag0[k]).data).ok
                     /\ segs[k] = Rewire(dag0[k], Dag(Definition(dag0[k]).num_qubits,
                                      Unroll({"u3", "cx"}, Definition(dag0[k]).data).nodes))

\* run returned the unrolling of a cz node, two levels deep, and of the
\* unitary node of test_definition_fallback.
C20_Witness ==
    /\ pc = "done"
    /\ equiv_lib = EmptyLibrary
    /\ dag0 = <<Op("cz", <<1, 2>>), Instr("unitary", <<>>, <<1>>, <<>>)>>
    /\ dag = <<Instr("u3", <<Num(Pi \div 2), Num(0), Num(Pi)>>, <<2>>, <<>>),
               Op("cx", <<1, 2>>),
               Instr("u3", <<Num(Pi \div 2), Num(0), Num(Pi)>>, <<2>>, <<>>),
               Instr("u3", <<Num(Pi), Num(0), Num(Pi)>>, <<1>>, <<>>)>>

\* The equivalences the add calls among the first n calls put under the key,
\* in the order of the calls.
RECURSIVE AddedUnder(_, _, _)
AddedUnder(calls, n, key) ==
    IF n = 0 THEN <<>>
    ELSE IF calls[n].op = "add" /\ calls[n].key = key
         THEN Append(AddedUnder(calls, n - 1, key), calls[n].value)
         ELSE AddedUnder(calls, n - 1, key)

\* C21: after any sequence of add calls, the equivalences of a (name, arity)
\* key are the (params, circuit) pairs added under that key, in the order they
\* were added, each as it was handed in; every lookup returned them so.
C21_GetReturnsAdded ==
    /\ \A key \in GetKeys \cup DOMAIN equiv_lib :
          GetEquivalences(equiv_lib, key) = AddedUnder(history, Len(history), key)
    /\ \A n \in 1..Len(history) :
          history[n].op = "get" =>
              history[n].value = AddedUnder(history, n - 1, history[n].key)

\* Both equivalences of cxy were added, the second first, h between them, and
\* the key of cxy holds the two in that order.
C21_Witness ==
    /\ Len(history) = 3
    /\ history[1].op = "add" /\ history[1].value.circuit = RulePool[6].circuit
    /\ history[2].op = "add" /\ history[2].key = Key("h", 1)
    /\ history[3].op = "add" /\ history[3].value.circuit = RulePool[1].circuit
    /\ Len(GetEquivalences(equiv_lib, Key("cxy", 2))) = 2
    /\ GetEquivalences(equiv_lib, Key("cxy", 2))[1].circuit = RulePool[6].circuit

\* The keys the add calls so far were made under.
AddedKeys == {history[n].key : n \in {j \in 1..Len(history) : history[j].op = "add"}}

\* C22: a lookup of a key with no entry returns the empty sequence, raises
\* nothing and creates no entry, so neither the caller's lookups nor the
\* lookups of the planner (every name under every arity of its range) raise
\* or add a key to the library.
C22_LookupOfMissingKey ==
    /\ DOMAIN equiv_lib = AddedKeys
    /\ err = NoError /\ pc # "error"
    /\ \A n \in 1..Len(history) :
          (history[n].op = "get" /\ AddedUnder(history, n - 1, history[n].key) = <<>>)
              => history[n].value = <<>>
    /\ \A key \in LookupKeys(source_basis) \ DOMAIN equiv_lib :
          GetEquivalences(equiv_lib, key) = <<>>

\* A key without an entry was looked up by the caller, and the planner has
\* expanded a basis with a name the library does not hold.
C22_Witness ==
    /\ pc = "searched"
    /\ \E n \in 1..Len(history) :
          history[n].op = "get" /\ history[n].key \notin DOMAIN equiv_lib
    /\ {"h", "swap"} \in closed_set
    /\ Key("swap", 2) \notin DOMAIN equiv_lib

\* The parameters of the template are among the formal parameters.
ParametersWithin(circ, params) ==
    \A k \in 1..Len(circ.data) : \A j \in 1..Len(circ.data[k].params) :
        IsParameterExpression(circ.data[k].params[j])
            => \E f \in 1..Len(params) : Mentions(circ.data[k].params[j], params[f])

\* C23: every entry of the table returnStandardRules builds has a circuit on
\* as many qubits as its key says, whose parameters are all formal parameters
\* of the entry.
C23_EntriesWellFormed ==
    \A key \in DOMAIN equiv_lib :
        \A j \in 1..Len(equiv_lib[key].equivalences) :
            /\ equiv_lib[key].equivalences[j].circuit.num_qubits = key[2]
            /\ ParametersWithin(equiv_lib[key].equivalences[j].circuit,
                                equiv_lib[key].equivalences[j].params)

\* C29: in the table returnStandardRules builds the u3 decomposition is under
\* the key of u3 and the entry of cx holds h . cz . h.
C29_RulesUnderOwnKey ==
    /\ Key("u3", 1) \in DOMAIN equiv_lib
    /\ Key("cx", 2) \in DOMAIN equiv_lib
    /\ equiv_lib[Key("cx", 2)].equivalences =
          <<[params |-> <<>>, circuit |-> RulePool[3].circuit]>>

\* The placement of the tokens after the first k swaps of a list.
RECURSIVE Placement(_, _, _)
Placement(m, edges, k) ==
    IF k = 0 THEN m
    ELSE LET before == Placement(m, edges, k - 1)
             a == edges[k][1]
             b == edges[k][2]
         IN [n \in {x \in graph.nodes :
                      \/ x \notin {a, b} /\ x \in DOMAIN before
                      \/ x = a /\ b \in DOMAIN before
                      \/ x = b /\ a \in DOMAIN before} |->
                IF n = a THEN before[b] ELSE IF n = b THEN before[a] ELSE before[n]]

\* The graph is connected.
Connected(g) == \A u, v \in g.nodes : Distance(g, u, v) < Infinity

\* C24: on a connected graph, the swaps map returns, made in order on the
\* tokens as the mapping places them, leave every token on its destination.
C24_SwapsImplementMapping ==
    (swap_pc = "returned" /\ Connected(graph)) =>
        LET final == Placement(mapping, swap_rtn, Len(swap_rtn))
        IN /\ \A n \in DOMAIN final : final[n] = n
           /\ DOMAIN final = {mapping[n] : n \in DOMAIN mapping}

\* map returned three swaps or more on the ring of 4 nodes.
C24_Witness ==
    /\ swap_pc = "returned"
    /\ graph = Ring
    /\ Len(swap_rtn) >= 3
    /\ Cardinality(DOMAIN mapping) >= 3

\* C25: every swap a trial yields, and every swap of the list map returns,
\* is on an edge of the graph, and the assertion of _swap does not fail.
C25_SwapsOnEdges ==
    /\ \A k \in 1..Len(swaps) : HasEdge(graph, swaps[k][1], swaps[k][2])
    /\ \A k \in 1..Len(swap_rtn) : HasEdge(graph, swap_rtn[k][1], swap_rtn[k][2])
    /\ \A j \in 1..Len(trial_results) : \A k \in 1..Len(trial_results[j]) :
          HasEdge(graph, trial_results[j][k][1], trial_results[j][k][2])
    /\ swap_pc # "AssertionError"

\* test_compile_swap_needed: on the path of 3 nodes the tokens of nodes 1 and
\* 2 change places, the token of node 3 stays, and map returns one swap.
C25_Witness ==
    /\ swap_pc = "returned"
    /\ graph = Graph(1..3, {{1, 2}, {2, 3}})
    /\ mapping = (1 :> 2) @@ (2 :> 1) @@ (3 :> 3)
    /\ Len(swap_rtn) = 1

\* The gate names of the transforms of the plan after the first i.
LaterGateNames(i) ==
    {basis_transforms.rtn[j].gate_name : j \in (i + 1)..Len(basis_transforms.rtn)}

\* C26: in the composer, before the first transform and after each transform
\* i of the plan, every node name of every mapped DAG is in the target basis
\* or is the gate name of a transform after i; after the last transform only
\* names of the target basis are left.
C26_ComposerStep ==
    /\ pc = "compose" =>
          \A g \in DOMAIN instr_map :
              Names(instr_map[g].dag.nodes) \subseteq target_basis \cup LaterGateNames(plan_i)
    /\ (pc \in {"apply", "done"} /\ basis_transforms.found) =>
          /\ plan_i = Len(basis_transforms.rtn)
          /\ \A g \in DOMAIN composed :
                Names(composed[g].dag.nodes) \subseteq target_basis \cup LaterGateNames(plan_i)

\* The first transform of a plan of two has been applied, a mapped DAG holds
\* what it put in, and another still holds the name the second will rewrite.
C26_Witness ==
    /\ pc = "compose"
    /\ plan_i = 1
    /\ Len(basis_transforms.rtn) = 2
    /\ \E g \in DOMAIN instr_map : Len(instr_map[g].dag.nodes) >= 3
    /\ \E g \in DOMAIN instr_map :
          Names(instr_map[g].dag.nodes) = {basis_transforms.rtn[2].gate_name}

\* The neighbors of an expanded basis B over the equivalences stored for its
\* names under the arities 1..20.
NeighborsUpTo20(lib, B) ==
    UNION {{(B \ {key[1]}) \cup CountOps(lib[key].equivalences[j].circuit) :
                j \in 1..Len(lib[key].equivalences)} :
           key \in {q \in DOMAIN lib : q[1] \in B /\ q[2] \in 1..ArityRange}}

\* C27: when the planner has expanded a basis B, every equivalence stored for
\* a name g of B under an arity from 1 to 20 has given the neighbor
\* (B \ {g}) \cup names(tmpl): the neighbor is closed or has a recorded cost.
C27_NeighborsOfEveryArity ==
    \A B \in closed_set :
        NeighborsUpTo20(equiv_lib, B) \subseteq closed_set \cup DOMAIN cost_from_source

\* The least number of rewrites that lead from a basis of the frontier to a
\* basis within target; -1 when none does.
RECURSIVE StepsToGoal(_, _, _, _, _)
StepsToGoal(lib, seen, frontier, target, k) ==
    IF \E B \in frontier : B \subseteq target THEN k
    ELSE IF frontier = {} THEN -1
    ELSE LET new == UNION {LibraryEdges(lib, B) : B \in frontier} \ seen
         IN StepsToGoal(lib, seen \cup new, new, target, k + 1)

\* C28: the estimate of a basis the planner has met is at most the cost of
\* the cheapest path from it to a goal basis (steps times the edge cost), for
\* every basis a goal can be reached from, and is 0 on a goal basis.
C28_HeuristicAdmissible ==
    pc = "search" =>
        \A B \in DOMAIN cost_from_source :
            LET steps_to_goal == StepsToGoal(equiv_lib, {B}, {B}, target_basis, 0)
            IN steps_to_goal >= 0 =>
                 CostUnitsPerOne * BasisHeuristic(B, target_basis) <= EdgeCost * steps_to_goal

\* Heap entries popped for a basis that was closed already: every push takes
\* one count, every pop that is not skipped closes one basis, and the pop of
\* a goal ends the search.
StalePops == basis_count - Cardinality(open_heap) - Cardinality(closed_set)

\* The entry on top of the heap is for a closed basis.
StaleOnTop ==
    /\ pc = "search" /\ open_set # {} /\ open_heap # {}
    /\ HeapMin(open_heap).basis \in closed_set

\* C30: in _basis_search no basis is expanded twice. A closed basis stays
\* closed and never comes back to open_set, each iteration closes at most
\* the one basis it popped, and the pop of an entry for a closed basis only
\* takes the entry from the heap: open_set, closed_set, cost_from_source,
\* came_from, the estimates and the counter stay as they are.
C30_NoBasisExpandedTwice ==
    [][pc = "search" =>
          /\ closed_set \subseteq closed_set'
          /\ closed_set' \cap open_set' = {}
          /\ closed_set' # closed_set =>
                 /\ open_heap # {}
                 /\ closed_set' = closed_set \cup {HeapMin(open_heap).basis}
                 /\ HeapMin(open_heap).basis \in open_set
          /\ StaleOnTop =>
                 /\ open_heap' = open_heap \ {HeapMin(open_heap)}
                 /\ UNCHANGED <<open_set, closed_set, cost_from_source, came_from,
                                est_total_cost, basis_count, equiv_lib>>]_vars

\* A search in which an entry for a closed basis was popped and skipped.
C30_Witness == pc = "search" /\ StalePops > 0

\* The bases that have an entry in the heap.
Queued == {e.basis : e \in open_heap}

\* C31: at every head of the loop of _basis_search open_set and closed_set
\* are disjoint and every basis of open_set has an entry in open_heap, so
\* heappop never meets an empty heap (no IndexError) and the basis popped,
\* when it is not closed, is in open_set for open_set.remove.
C31_OpenAndClosed ==
    /\ err.kind # "IndexError"
    /\ pc = "search" =>
          /\ open_set \cap closed_set = {}
          /\ open_set \subseteq Queued
          /\ Queued \subseteq open_set \cup closed_set
          /\ open_set # {} =>
                 /\ open_heap # {}
                 /\ HeapMin(open_heap).basis \notin closed_set =>
                        HeapMin(open_heap).basis \in open_set

\* A loop head with bases closed and several bases open.
C31_Witness ==
    /\ pc = "search"
    /\ Cardinality(open_set) >= 2
    /\ Cardinality(closed_set) >= 2

\* The bases whose record a step writes: a new or another cost_from_source,
\* came_from or est_total_cost.
Written ==
    {B \in DOMAIN cost_from_source' :
        \/ B \notin DOMAIN cost_from_source
        \/ cost_from_source'[B] # cost_from_source[B]}
    \cup {B \in DOMAIN came_from' :
        B \notin DOMAIN came_from \/ came_from'[B] # came_from[B]}
    \cup {B \in DOMAIN est_total_cost' :
        B \notin DOMAIN est_total_cost \/ est_total_cost'[B] # est_total_cost[B]}

\* The heap entries a step pushes.
Pushed == open_heap' \ open_heap

\* C32: within a search, cost_from_source and came_from of a basis are
\* written only with a cost strictly below the recorded one (a basis never
\* seen counts as infinite) and only for a basis that is not closed; each
\* written basis gets exactly one new heap entry and nothing else is pushed;
\* no record is dropped, and the records of closed bases and of
\* source_basis stay as they are.
C32_WritesImprove ==
    [][pc = "search" =>
          /\ DOMAIN cost_from_source \subseteq DOMAIN cost_from_source'
          /\ DOMAIN came_from \subseteq DOMAIN came_from'
          /\ \A B \in Written :
                /\ B \notin closed_set'
                /\ B # source_basis
                /\ B \in DOMAIN cost_from_source' /\ B \in DOMAIN came_from'
                /\ B \in DOMAIN cost_from_source =>
                       cost_from_source'[B] < cost_from_source[B]
                /\ Cardinality({e \in Pushed : e.basis = B}) = 1
          /\ \A e \in Pushed : e.basis \in Written
          /\ basis_count' = basis_count + Cardinality(Written)]_vars

\* A search in which the record of a basis was written a second time, with
\* a lower cost: the basis has two entries in the heap.
C32_Witness ==
    /\ pc = "search"
    /\ \E e, f \in open_heap : e.basis = f.basis /\ e.count # f.count

\* The names of the instructions of a template.
TemplateNames(tmpl) == {tmpl.data[k].name : k \in 1..Len(tmpl.data)}

\* The bases met when came_from is followed from B, B and the source
\* included, as long as records are found (at most n of them).
RECURSIVE Trail(_, _)
Trail(B, n) ==
    IF B = source_basis \/ B \notin DOMAIN came_from \/ n = 0 THEN {B}
    ELSE {B} \cup Trail(came_from[B].prev_basis, n - 1)

\* C33: every came_from record (prev, g, params, tmpl) of a basis B has prev
\* closed, g in prev, B = (prev \ {g}) with the names of tmpl, and
\* cost_from_source[B] one edge above cost_from_source[prev]; so the walk
\* over came_from from any basis found goes down in cost to source_basis,
\* and the reconstruction of the path meets no missing key.
C33_CameFromRecords ==
    /\ err.kind # "KeyError"
    /\ \A B \in DOMAIN came_from :
          LET r == came_from[B]
          IN /\ r.prev_basis \in closed_set
             /\ r.gate_name \in r.prev_basis
             /\ B = (r.prev_basis \ {r.gate_name}) \cup TemplateNames(r.equiv)
             /\ B \in DOMAIN cost_from_source
             /\ r.prev_basis \in DOMAIN cost_from_source
             /\ cost_from_source[B] = cost_from_source[r.prev_basis] + EdgeCost
             /\ source_basis \in Trail(B, cost_from_source[B])
    /\ \A B \in DOMAIN cost_from_source : B = source_basis \/ B \in DOMAIN came_from

\* A plan of three transforms or more was rebuilt from the came_from
\* records, with bases found that are not on its path.
C33_Witness ==
    /\ pc = "searched"
    /\ basis_transforms.found
    /\ Len(basis_transforms.rtn) >= 3
    /\ Cardinality(DOMAIN came_from) > Len(basis_transforms.rtn)

\* The entry a step pops from the heap.
Popped == open_heap \ open_heap'

\* Every push so far took its own value of the counter (none was made
\* before the search).
CountsUnique ==
    /\ \A e, f \in open_heap : e.count = f.count => e = f
    /\ \A e \in open_heap : e.count < basis_count

\* A step of the search pops the entry of least priority and, among those of
\* equal priority, of least count; the entries it pushes take the values of
\* the counter from basis_count on, each its own.
PopsFirstPushed ==
    pc = "search" /\ open_heap' # open_heap =>
        /\ Cardinality(Popped) = 1
        /\ \A e \in Popped : \A f \in open_heap \ {e} :
              e.prio < f.prio \/ (e.prio = f.prio /\ e.count < f.count)
        /\ \A n \in Pushed :
              /\ basis_count <= n.count /\ n.count < basis_count'
              /\ \A f \in open_heap : f.count < n.count
              /\ \A o \in Pushed : o.count = n.count => o = n

\* C34: heap entries carry a tie-break counter that grows with every push
\* and is unique per entry, so of entries with equal estimated total cost
\* the one pushed first is popped first, and two entries never compare
\* equal in (priority, count): their bases are never compared.
C34_TieBreakCounter == [][PopsFirstPushed /\ CountsUnique']_vars

\* Several entries share the least priority of the heap: the counter
\* decides which one is popped.
C34_Witness ==
    /\ pc = "search" /\ closed_set # {}
    /\ \E e, f \in open_heap :
          /\ e # f /\ e.prio = f.prio /\ e.basis # f.basis
          /\ \A g \in open_heap : e.prio <= g.prio

\* The names of the op nodes of the input that are not target names.
NamesToMap == {dag0[k].name : k \in 1..Len(dag0)} \ target_basis

\* C35: the branch of run that raises 'BasisTranslator did not map' is never
\* taken: once the planner has returned a plan and the composer has built
\* its map, every op node of the input whose name is not in the target has
\* an entry in the map.
C35_EveryNodeMapped ==
    /\ err.kind # "RuntimeError"
    /\ pc \in {"compose", "apply", "done"} => NamesToMap \subseteq DOMAIN instr_map

\* A run came to its end after the applier looked up nodes of two names in
\* the map.
C35_Witness ==
    /\ pc = "done"
    /\ Cardinality(NamesToMap) >= 2
    /\ node_i = Len(dag0)

\* The edges of digraph as the tokens tok call for them: a self-loop on
\* every node whose token is at home, and from a node whose token is not at
\* home the edges to the neighbors strictly nearer to its destination.
ExpectedEdges(g, tok) ==
    {<<n, n>> : n \in {n \in DOMAIN tok : tok[n] = n}}
    \cup {e \in g.nodes \X g.nodes :
            /\ e[1] \in DOMAIN tok /\ tok[e[1]] # e[1]
            /\ {e[1], e[2]} \in g.edges
            /\ Distance(g, e[2], tok[e[1]]) < Distance(g, e[1], tok[e[1]])}

\* The cached structures of st are those its tokens call for.
Consistent(g, st) ==
    /\ st.todo_nodes = {n \in DOMAIN st.tokens : st.tokens[n] # n}
    /\ st.digraph.edges = ExpectedEdges(g, st.tokens)
    /\ st.sub_digraph.edges = {e \in st.digraph.edges : e[1] # e[2]}

\* The lists of swaps the next iteration can make along a happy swap chain.
HappyChains ==
    IF InLoop
    THEN {ReversedButFirst(cycle) :
            cycle \in UNION {Cycles(sub_digraph, n) : n \in todo_nodes \cap sub_digraph.nodes}}
    ELSE {}

\* C36: after every _swap of a trial the cached structures are what would
\* be computed anew from the tokens: todo_nodes holds the nodes whose token
\* is not at home, digraph has a self-loop exactly on the nodes whose token
\* is at home and, for a token not at home, exactly the edges to the
\* neighbors strictly nearer to its destination, and sub_digraph is digraph
\* without the self-loops.  This holds in the states between iterations and
\* after each swap within a chain of swaps.
C36_CachesConsistent ==
    swap_pc # "idle" =>
        /\ Consistent(graph, TrialState)
        /\ \A chain \in HappyChains : \A k \in 1..Len(chain) :
              Consistent(graph, SwapAll(graph, SubSeq(chain, 1, k), 1, TrialState))

\* Two swaps or more were made, and the trial goes on with a token at
\* home, tokens elsewhere and a chain of swaps ahead.
C36_Witness ==
    /\ swap_pc = "trial" /\ Len(swaps) >= 2
    /\ todo_nodes # {}
    /\ \E n \in DOMAIN tokens : tokens[n] = n
    /\ HappyChains # {}

\* 4 * len(self.graph.nodes) ** 2 of the graph at hand
StepLimit == 4 * Cardinality(graph.nodes) * Cardinality(graph.nodes)

\* C37: a trial of _trial_map ends in one of two ways: with todo_nodes
\* empty, its list of swaps kept, or with the RuntimeError raised once the
\* step counter is above 4 |V|^2 while tokens are still misplaced; no other
\* exception leaves it, and no list is kept while a token is off its
\* destination.
C37_TrialOutcomes ==
    /\ swap_pc \notin {"idle", "trial", "returned"} =>
          /\ swap_pc = "RuntimeError"
          /\ steps > StepLimit
          /\ todo_nodes # {}
    /\ swap_pc = "returned" => \A n \in DOMAIN tokens : tokens[n] = n

\* C38: tokens are conserved. Each swap of a trial exchanges what its two
\* nodes hold, a token or none, and leaves every other node as it is: the
\* tokens are where the swaps made so far put those of the mapping; hence
\* the destinations on the graph are those of the mapping, as many as
\* there, and no destination is held by two nodes.
C38_TokensConserved ==
    swap_pc \in {"trial", "returned"} =>
        /\ tokens = Placement(mapping, swaps, Len(swaps))
        /\ {tokens[n] : n \in DOMAIN tokens} = {mapping[n] : n \in DOMAIN mapping}
        /\ Cardinality(DOMAIN tokens) = Cardinality(DOMAIN mapping)
        /\ \A a, b \in DOMAIN tokens : tokens[a] = tokens[b] => a = b

\* A trial after two swaps or more, one of them with a node without token:
\* the nodes that hold tokens are not those of the mapping.
C38_Witness ==
    /\ swap_pc = "trial"
    /\ Len(swaps) >= 2
    /\ DOMAIN tokens # DOMAIN mapping

\* From todo_node no cycle of sub_digraph and no edge to a node without
\* token is found: the unhappy swap is at hand.
Unhappy(todo_node) ==
    /\ todo_node \in sub_digraph.nodes
    /\ Cycles(sub_digraph, todo_node) = {}
    /\ EdgesToFreeNode(sub_digraph, todo_node, tokens) = {}

\* C39: on a connected graph the cases of _trial_map cover every todo node
\* and its assertions hold. A cycle found in sub_digraph has more than one
\* edge; with no such cycle and no node without token in reach, digraph
\* has a cycle from the todo node, every such cycle is one self-loop on a
\* node whose token is at home, and that node has a predecessor other than
\* itself; no AssertionError, NetworkXError, NetworkXNoCycle or StopIteration
\* leaves the trial.
C39_CasesExhaustive ==
    Connected(graph) =>
        /\ swap_pc \in {"idle", "trial", "returned"}
              \/ (swap_pc = "RuntimeError" /\ steps > StepLimit)
        /\ InLoop => \A todo_node \in todo_nodes :
              /\ todo_node \in sub_digraph.nodes /\ todo_node \in digraph.nodes
              /\ \A cycle \in Cycles(sub_digraph, todo_node) : Len(cycle) > 1
              /\ Unhappy(todo_node) =>
                    /\ Cycles(digraph, todo_node) # {}
                    /\ \A cycle \in Cycles(digraph, todo_node) :
                          /\ Len(cycle) = 1
                          /\ cycle[1][1] = cycle[1][2]
                          /\ cycle[1][1] \in DOMAIN tokens
                          /\ tokens[cycle[1][1]] = cycle[1][1]
                          /\ \E e \in digraph.edges :
                                e[2] = cycle[1][1] /\ e[1] # cycle[1][1]

\* On a connected graph a trial that has made swaps meets the unhappy case.
C39_Witness ==
    /\ Connected(graph) /\ graph.nodes # {}
    /\ InLoop /\ swaps # <<>>
    /\ \E todo_node \in todo_nodes : Unhappy(todo_node)

====
